---------------------------- MODULE Spec2Model ----------------------------
(***************************************************************************)
(* Model of quotes-service: the HTTP handler, the application service, the *)
(* PostgreSQL repository and the quotes table they work on.                *)
(*                                                                         *)
(* Text is kept run-length encoded: a string is a sequence of runs         *)
(* [c |-> character, n |-> repetitions], adjacent runs holding different   *)
(* characters.  This keeps strings of 100 and 1000 characters small while  *)
(* TrimSpace, len and the character count are computed on the real shape.  *)
(***************************************************************************)
EXTENDS Integers, Sequences, FiniteSets, TLC

VARIABLES table, nextID, now, deleted, last

vars == <<table, nextID, now, deleted, last>>

---------------------------------------------------------------------------
(* Bounds of the model *)

\* ids the sequence of the table may hand out
MaxId == 2
\* readings of the wall clock
MaxTime == 1

---------------------------------------------------------------------------
(* Characters and strings *)

\* "a", "A", "q": ASCII letters; "ya": a Cyrillic letter (2 bytes in UTF-8);
\* "sp", "tab": ASCII white space; "nbsp": U+00A0 (2 bytes, Unicode white space)
\* "%", "_": the characters LIKE reads as wild cards
Chars == {"a", "A", "q", "ya", "sp", "tab", "nbsp", "%", "_"}

\* bytes of the UTF-8 encoding of a character (Go strings are UTF-8 bytes)
Utf8Len(c) == IF c \in {"ya", "nbsp"} THEN 2 ELSE 1

\* unicode.IsSpace, which strings.TrimSpace uses
IsSpace(c) == c \in {"sp", "tab", "nbsp"}

Run(c, n) == [c |-> c, n |-> n]

EmptyStr == << >>

RECURSIVE TrimLeft(_)
TrimLeft(s) ==
    IF s = << >> THEN << >>
    ELSE IF IsSpace(Head(s).c) THEN TrimLeft(Tail(s))
    ELSE s

RECURSIVE TrimRight(_)
TrimRight(s) ==
    IF s = << >> THEN << >>
    ELSE IF IsSpace(s[Len(s)].c) THEN TrimRight(SubSeq(s, 1, Len(s) - 1))
    ELSE s

\* a plausible slip: only the leading white space is removed
TrimSpace_LeftOnly(s) == TrimLeft(s)

\* strings.TrimSpace
TrimSpace(s) == TrimRight(TrimLeft(s))

\* Go's len(s): the number of bytes
RECURSIVE ByteLen(_)
ByteLen(s) ==
    IF s = << >> THEN 0 ELSE Head(s).n * Utf8Len(Head(s).c) + ByteLen(Tail(s))

\* the number of characters (code points), which VARCHAR(n) and length() count
RECURSIVE CharLen(_)
CharLen(s) ==
    IF s = << >> THEN 0 ELSE Head(s).n + CharLen(Tail(s))

---------------------------------------------------------------------------
(* Errors: the sentinels an error matches under errors.Is, and its text as *)
(* the parts that Error() joins with ": "                                  *)

NilErr == [is |-> {}, msg |-> << >>]

IsNil(e) == e = NilErr

ErrorsNew(m) == [is |-> {}, msg |-> <<m>>]

ErrQuoteNotFound == [is |-> {"ErrQuoteNotFound"}, msg |-> <<"quote not found">>]

ErrInvalidQuote == [is |-> {"ErrInvalidQuote"}, msg |-> <<"invalid quote data">>]

\* sql.ErrNoRows
ErrNoRows == [is |-> {"sql.ErrNoRows"}, msg |-> <<"sql: no rows in result set">>]

\* errors.Is(e, target) for a sentinel target
ErrorsIs(e, target) == target.is \subseteq e.is /\ target.is # {}

\* fmt.Errorf(prefix + ": %w", e)
Wrap(prefix, e) == [is |-> e.is, msg |-> <<prefix>> \o e.msg]

\* fmt.Errorf("%w: %s", sentinel, text)
WrapText(sentinel, text) == [is |-> sentinel.is, msg |-> sentinel.msg \o text]

---------------------------------------------------------------------------
(* domain.CreateQuoteRequest *)

MaxAuthorLen == 100
MaxQuoteLen == 1000

\* a plausible slip: the length checks run before the emptiness checks
Validate_LengthFirst(r) ==
    LET a == TrimSpace(r.Author)
        q == TrimSpace(r.Quote)
        t == [Author |-> a, Quote |-> q]
    IN  IF ByteLen(a) > MaxAuthorLen
        THEN [err |-> ErrorsNew("author must be less than 100 characters"), req |-> t]
        ELSE IF ByteLen(q) > MaxQuoteLen
        THEN [err |-> ErrorsNew("quote must be less than 1000 characters"), req |-> t]
        ELSE IF q = EmptyStr
        THEN [err |-> ErrorsNew("quote is required"), req |-> t]
        ELSE IF a = EmptyStr
        THEN [err |-> ErrorsNew("author is required"), req |-> t]
        ELSE [err |-> NilErr, req |-> t]

\* CreateQuoteRequest.Validate: the error and the request as left in place
Validate(r) ==
    LET a == TrimSpace(r.Author)
        q == TrimSpace(r.Quote)
        t == [Author |-> a, Quote |-> q]
    IN  IF a = EmptyStr
        THEN [err |-> ErrorsNew("author is required"), req |-> t]
        ELSE IF q = EmptyStr
        THEN [err |-> ErrorsNew("quote is required"), req |-> t]
        ELSE IF ByteLen(a) > MaxAuthorLen
        THEN [err |-> ErrorsNew("author must be less than 100 characters"), req |-> t]
        ELSE IF ByteLen(q) > MaxQuoteLen
        THEN [err |-> ErrorsNew("quote must be less than 1000 characters"), req |-> t]
        ELSE [err |-> NilErr, req |-> t]

---------------------------------------------------------------------------
(* The quotes table (migration 001) and the PostgreSQL backend              *)

\* VARCHAR(100): the author column holds at most 100 characters
VarcharLimit == 100

\* trim(x) of PostgreSQL: strips the space character only
RECURSIVE PgTrimLeft(_)
PgTrimLeft(s) ==
    IF s = << >> THEN << >>
    ELSE IF Head(s).c = "sp" THEN PgTrimLeft(Tail(s))
    ELSE s

RECURSIVE PgTrimRight(_)
PgTrimRight(s) ==
    IF s = << >> THEN << >>
    ELSE IF s[Len(s)].c = "sp" THEN PgTrimRight(SubSeq(s, 1, Len(s) - 1))
    ELSE s

PgTrim(s) == PgTrimRight(PgTrimLeft(s))

\* the column type and the CHECK constraints of CREATE TABLE quotes; the
\* arguments of the INSERT never end in a space, so an over-long author is
\* an error and never a silent truncation
SchemaAccepts(author, text) ==
    /\ CharLen(author) <= VarcharLimit
    /\ CharLen(PgTrim(author)) > 0
    /\ CharLen(PgTrim(text)) > 0

\* What the backend does with one statement: "ok" runs it and answers;
\* "fail" does not run it (no connection, deadline passed before it ran);
\* "lost" runs it but the answer does not arrive (deadline or connection
\* loss after it ran).  detail is the text of the driver's error.
BackendErrors == {"connection refused", "context deadline exceeded"}

Backends ==
    [kind : {"ok"}, detail : {""}] \cup [kind : {"fail", "lost"}, detail : BackendErrors]

BackendOk == [kind |-> "ok", detail |-> ""]

DriverErr(be) == [is |-> {}, msg |-> <<be.detail>>]

ConstraintErr == [is |-> {}, msg |-> <<"pq: constraint violation">>]

NoQuote == << >>

---------------------------------------------------------------------------
(* postgres.quoteRepository                                                 *)
(* Each operation yields its results and the table and sequence it leaves.  *)

\* quoteRepository.Create
quoteRepository_Create(quote, be) ==
    LET row == [ID |-> nextID, Author |-> quote.Author, Text |-> quote.Text,
                CreatedAt |-> now, UpdatedAt |-> now]
    IN  IF be.kind = "fail"
        THEN [res |-> NoQuote, err |-> Wrap("failed to create quote", DriverErr(be)),
              table |-> table, nextID |-> nextID]
        ELSE IF ~SchemaAccepts(quote.Author, quote.Text)
        THEN [res |-> NoQuote, err |-> Wrap("failed to create quote", ConstraintErr),
              table |-> table, nextID |-> nextID + 1]
        ELSE IF be.kind = "lost"
        THEN [res |-> NoQuote, err |-> Wrap("failed to create quote", DriverErr(be)),
              table |-> (nextID :> row) @@ table, nextID |-> nextID + 1]
        ELSE [res |-> <<row>>, err |-> NilErr,
              table |-> (nextID :> row) @@ table, nextID |-> nextID + 1]

\* quoteRepository.GetByID
quoteRepository_GetByID(id, be) ==
    IF be.kind # "ok"
    THEN [res |-> NoQuote, err |-> Wrap("failed to get quote", DriverErr(be))]
    ELSE IF id \notin DOMAIN table
    THEN [res |-> NoQuote, err |-> ErrQuoteNotFound]
    ELSE [res |-> <<table[id]>>, err |-> NilErr]

\* a plausible slip: sql.ErrNoRows is not told apart from other failures
quoteRepository_GetRandom_NoSentinel(pick, be) ==
    IF be.kind # "ok"
    THEN [res |-> NoQuote, err |-> Wrap("failed to get random quote", DriverErr(be))]
    ELSE IF DOMAIN table = {}
    THEN [res |-> NoQuote, err |-> Wrap("failed to get random quote", ErrNoRows)]
    ELSE [res |-> <<table[pick]>>, err |-> NilErr]

\* quoteRepository.GetRandom; pick is the row ORDER BY RANDOM() LIMIT 1 puts
\* first, any row of the table
quoteRepository_GetRandom(pick, be) ==
    IF be.kind # "ok"
    THEN [res |-> NoQuote, err |-> Wrap("failed to get random quote", DriverErr(be))]
    ELSE IF DOMAIN table = {}
    THEN [res |-> NoQuote, err |-> ErrQuoteNotFound]
    ELSE [res |-> <<table[pick]>>, err |-> NilErr]

\* DELETE FROM quotes WHERE id = $1: the table left and the rows affected
DeleteRows(id) ==
    [table |-> [i \in DOMAIN table \ {id} |-> table[i]],
     rowsAffected |-> Cardinality(DOMAIN table \cap {id})]

\* a plausible slip: the rows affected are not looked at
quoteRepository_Delete_NoRowsCheck(id, be) ==
    LET d == DeleteRows(id)
    IN  IF be.kind = "fail"
        THEN [err |-> Wrap("failed to delete quote", DriverErr(be)), table |-> table]
        ELSE IF be.kind = "lost"
        THEN [err |-> Wrap("failed to delete quote", DriverErr(be)), table |-> d.table]
        ELSE [err |-> NilErr, table |-> d.table]

\* quoteRepository.Delete
quoteRepository_Delete(id, be) ==
    LET d == DeleteRows(id)
    IN  IF be.kind = "fail"
        THEN [err |-> Wrap("failed to delete quote", DriverErr(be)), table |-> table]
        ELSE IF be.kind = "lost"
        THEN [err |-> Wrap("failed to delete quote", DriverErr(be)), table |-> d.table]
        ELSE IF d.rowsAffected = 0
        THEN [err |-> ErrQuoteNotFound, table |-> d.table]
        ELSE [err |-> NilErr, table |-> d.table]

\* quoteRepository.HealthCheck: db.PingContext
quoteRepository_HealthCheck(be) ==
    IF be.kind # "ok" THEN DriverErr(be) ELSE NilErr

---------------------------------------------------------------------------
(* quoteRepository.GetAll: the query text, its bound arguments, its rows    *)

\* the characters of a string, one by one
RECURSIVE Expand(_)
Expand(s) ==
    IF s = << >> THEN << >>
    ELSE [i \in 1..Head(s).n |-> Head(s).c] \o Expand(Tail(s))

\* case folding of ILIKE; the database runs with lc-ctype=C, which folds
\* ASCII letters only
Lower(c) == IF c = "A" THEN "a" ELSE c

\* the lengths i of the prefixes of s that the first k characters of the
\* pattern p match: % matches any run, _ any one character, any other
\* character itself, letters without regard to case
RECURSIVE LikePrefixes(_, _, _)
LikePrefixes(s, p, k) ==
    IF k = 0 THEN {0}
    ELSE LET before == LikePrefixes(s, p, k - 1)
         IN  IF p[k] = "%"
             THEN {j \in 0..Len(s) : \E i \in before : i <= j}
             ELSE {i + 1 : i \in {h \in before :
                        /\ h < Len(s)
                        /\ (p[k] = "_" \/ Lower(s[h + 1]) = Lower(p[k]))}}

\* s ILIKE p on characters
ILike(s, p) == Len(s) \in LikePrefixes(s, p, Len(p))

\* the bound argument "%" + filter.Author + "%"
AuthorPattern(author) == <<"%">> \o Expand(author) \o <<"%">>

\* rows the WHERE clause keeps
Matching(filter) ==
    IF filter.Author = EmptyStr THEN DOMAIN table
    ELSE {i \in DOMAIN table :
            ILike(Expand(table[i].Author), AuthorPattern(filter.Author))}

\* the orders ORDER BY created_at DESC may give the rows of S: rows of one
\* creation time come in any order
Orders(S) ==
    {o \in [1..Cardinality(S) -> S] :
        /\ \A i, j \in 1..Cardinality(S) : i # j => o[i] # o[j]
        /\ \A i, j \in 1..Cardinality(S) :
              i < j => table[o[i]].CreatedAt >= table[o[j]].CreatedAt}

\* a query is a sequence of pieces: literal text of the program, or a
\* placeholder $n; an argument bound to a placeholder is a string, given as
\* its characters, or an integer
Text(t) == [text |-> t, param |-> 0]

Param(n) == [text |-> "$", param |-> n]

StrArg(chars) == [isInt |-> FALSE, s |-> chars, n |-> 0]

IntArg(n) == [isInt |-> TRUE, s |-> << >>, n |-> n]

\* args after the author condition, after LIMIT and after OFFSET
GetAllArgs1(filter) ==
    IF filter.Author # EmptyStr THEN <<StrArg(AuthorPattern(filter.Author))>> ELSE << >>

GetAllArgs2(filter) ==
    IF filter.Limit > 0
    THEN Append(GetAllArgs1(filter), IntArg(filter.Limit)) ELSE GetAllArgs1(filter)

\* the arguments bound to the SELECT, in the order they are appended
GetAllArgs(filter) ==
    IF filter.Offset > 0
    THEN Append(GetAllArgs2(filter), IntArg(filter.Offset)) ELSE GetAllArgs2(filter)

\* a plausible slip: LIMIT and OFFSET are numbered as if the author
\* condition were always there
GetAllQuery_FixedNumbers(filter) ==
    <<Text("SELECT id, author, text, created_at, updated_at FROM quotes")>>
        \o (IF filter.Author # EmptyStr
            THEN <<Text(" WHERE "), Text("author ILIKE "), Param(1)>> ELSE << >>)
        \o <<Text(" ORDER BY created_at DESC")>>
        \o (IF filter.Limit > 0 THEN <<Text(" LIMIT "), Param(2)>> ELSE << >>)
        \o (IF filter.Offset > 0 THEN <<Text(" OFFSET "), Param(3)>> ELSE << >>)

\* the text of the SELECT, built as the code appends to it: each
\* placeholder is numbered len(args)+1 for the args appended so far
GetAllQuery(filter) ==
    LET conditions == IF filter.Author # EmptyStr
                      THEN <<Text("author ILIKE "), Param(Len(<< >>) + 1)>> ELSE << >>
        where == IF conditions # << >> THEN <<Text(" WHERE ")>> \o conditions ELSE << >>
        lim == IF filter.Limit > 0
               THEN <<Text(" LIMIT "), Param(Len(GetAllArgs1(filter)) + 1)>> ELSE << >>
        off == IF filter.Offset > 0
               THEN <<Text(" OFFSET "), Param(Len(GetAllArgs2(filter)) + 1)>> ELSE << >>
    IN  <<Text("SELECT id, author, text, created_at, updated_at FROM quotes")>>
            \o where \o <<Text(" ORDER BY created_at DESC")>> \o lim \o off

\* the text and the arguments of the SELECT COUNT(*)
CountQuery(filter) ==
    <<Text("SELECT COUNT(*) FROM quotes")>>
        \o (IF filter.Author # EmptyStr
            THEN <<Text(" WHERE "), Text("author ILIKE "), Param(1)>> ELSE << >>)

CountArgs(filter) ==
    IF filter.Author # EmptyStr THEN <<StrArg(AuthorPattern(filter.Author))>> ELSE << >>

\* a plausible slip: OFFSET is left out, the rows start at the first
Window_NoOffset(o, skip, count) ==
    LET hi == IF count < Len(o) THEN count ELSE Len(o)
    IN  [i \in 1..hi |-> o[i]]

\* rows skip+1 .. skip+count of the sequence o, as far as it has them
Window(o, skip, count) ==
    LET lo == skip + 1
        hi == IF skip + count < Len(o) THEN skip + count ELSE Len(o)
    IN  IF lo > hi THEN << >> ELSE [i \in 1..(hi - lo + 1) |-> o[lo + i - 1]]

\* a Go slice: nil until the first append
NilSlice == [isNil |-> TRUE, items |-> << >>]

SliceOf(items) == IF items = << >> THEN NilSlice ELSE [isNil |-> FALSE, items |-> items]

\* quoteRepository.GetAll; ord is the order the backend returns the matching
\* rows in, one of Orders(Matching(filter))
quoteRepository_GetAll(filter, ord, be) ==
    LET skip  == IF filter.Offset > 0 THEN filter.Offset ELSE 0
        count == IF filter.Limit > 0 THEN filter.Limit ELSE Len(ord)
        ids   == Window(ord, skip, count)
    IN  IF be.kind # "ok"
        THEN [res |-> NilSlice, err |-> Wrap("failed to get quotes", DriverErr(be)),
              query |-> GetAllQuery(filter), args |-> GetAllArgs(filter)]
        ELSE [res |-> SliceOf([i \in 1..Len(ids) |-> table[ids[i]]]), err |-> NilErr,
              query |-> GetAllQuery(filter), args |-> GetAllArgs(filter)]

\* quoteRepository.Count
quoteRepository_Count(filter, be) ==
    IF be.kind # "ok"
    THEN [res |-> 0, err |-> Wrap("failed to count quotes", DriverErr(be)),
          query |-> CountQuery(filter), args |-> CountArgs(filter)]
    ELSE [res |-> Cardinality(Matching(filter)), err |-> NilErr,
          query |-> CountQuery(filter), args |-> CountArgs(filter)]

---------------------------------------------------------------------------
(* service.QuoteService                                                     *)
(* calls lists the repository operations the call made, in order.           *)

DefaultLimit == 100
MaxLimit == 1000

Call(op, arg) == [op |-> op, arg |-> arg]

\* a plausible slip: the repository is given the request as it came in
QuoteService_CreateQuote_Untrimmed(req, be) ==
    LET v == Validate(req)
        r == quoteRepository_Create([Author |-> req.Author, Text |-> req.Quote], be)
    IN  IF ~IsNil(v.err)
        THEN [quote |-> NoQuote, err |-> WrapText(ErrInvalidQuote, v.err.msg),
              calls |-> << >>, table |-> table, nextID |-> nextID]
        ELSE IF ~IsNil(r.err)
        THEN [quote |-> NoQuote, err |-> Wrap("failed to create quote", r.err),
              calls |-> <<Call("Create", [Author |-> req.Author, Text |-> req.Quote])>>,
              table |-> r.table, nextID |-> r.nextID]
        ELSE [quote |-> r.res, err |-> NilErr,
              calls |-> <<Call("Create", [Author |-> req.Author, Text |-> req.Quote])>>,
              table |-> r.table, nextID |-> r.nextID]

\* a plausible slip: the request is stored before it is validated
QuoteService_CreateQuote_StoreFirst(req, be) ==
    LET v == Validate(req)
        quote == [Author |-> v.req.Author, Text |-> v.req.Quote]
        r == quoteRepository_Create(quote, be)
    IN  IF ~IsNil(v.err)
        THEN [quote |-> NoQuote, err |-> WrapText(ErrInvalidQuote, v.err.msg),
              calls |-> <<Call("Create", quote)>>, table |-> r.table, nextID |-> r.nextID]
        ELSE IF ~IsNil(r.err)
        THEN [quote |-> NoQuote, err |-> Wrap("failed to create quote", r.err),
              calls |-> <<Call("Create", quote)>>, table |-> r.table, nextID |-> r.nextID]
        ELSE [quote |-> r.res, err |-> NilErr,
              calls |-> <<Call("Create", quote)>>, table |-> r.table, nextID |-> r.nextID]

\* QuoteService.CreateQuote
QuoteService_CreateQuote(req, be) ==
    LET v == Validate(req)
        quote == [Author |-> v.req.Author, Text |-> v.req.Quote]
        r == quoteRepository_Create(quote, be)
    IN  IF ~IsNil(v.err)
        THEN [quote |-> NoQuote, err |-> WrapText(ErrInvalidQuote, v.err.msg),
              calls |-> << >>, table |-> table, nextID |-> nextID]
        ELSE IF ~IsNil(r.err)
        THEN [quote |-> NoQuote, err |-> Wrap("failed to create quote", r.err),
              calls |-> <<Call("Create", quote)>>, table |-> r.table, nextID |-> r.nextID]
        ELSE [quote |-> r.res, err |-> NilErr,
              calls |-> <<Call("Create", quote)>>, table |-> r.table, nextID |-> r.nextID]

\* a plausible slip: the upper clamp is left out
ClampLimit_NoUpper(limit) == IF limit <= 0 THEN DefaultLimit ELSE limit

\* the defaulting and clamping of filter.Limit in GetAllQuotes
ClampLimit(limit) ==
    LET l1 == IF limit <= 0 THEN DefaultLimit ELSE limit
    IN  IF l1 > MaxLimit THEN MaxLimit ELSE l1

\* the filter GetAllQuotes hands to the repository
ClampedFilter(filter) ==
    [Author |-> filter.Author, Limit |-> ClampLimit(filter.Limit), Offset |-> filter.Offset]

\* QuoteService.GetAllQuotes; ord is the backend's order of the matching rows
QuoteService_GetAllQuotes(filter, ord, be) ==
    LET f == ClampedFilter(filter)
        r == quoteRepository_GetAll(f, ord, be)
    IN  IF ~IsNil(r.err)
        THEN [quotes |-> NilSlice, err |-> Wrap("failed to get quotes", r.err),
              calls |-> <<Call("GetAll", f)>>]
        ELSE [quotes |-> r.res, err |-> NilErr, calls |-> <<Call("GetAll", f)>>]

\* a plausible slip: the error is wrapped with %v, which keeps its text
\* and loses what it is
QuoteService_GetRandomQuote_Flattened(pick, be) ==
    LET r == quoteRepository_GetRandom(pick, be)
    IN  IF ~IsNil(r.err)
        THEN [quote |-> NoQuote,
              err |-> [is |-> {}, msg |-> <<"failed to get random quote">> \o r.err.msg],
              calls |-> <<Call("GetRandom", << >>)>>]
        ELSE [quote |-> r.res, err |-> NilErr, calls |-> <<Call("GetRandom", << >>)>>]

\* a plausible slip: a failed read is tried once more before giving up
QuoteService_GetRandomQuote_RetryOnce(pick, be) ==
    LET r == quoteRepository_GetRandom(pick, be)
    IN  IF ~IsNil(r.err)
        THEN [quote |-> NoQuote, err |-> Wrap("failed to get random quote", r.err),
              calls |-> <<Call("GetRandom", << >>), Call("GetRandom", << >>)>>]
        ELSE [quote |-> r.res, err |-> NilErr, calls |-> <<Call("GetRandom", << >>)>>]

\* QuoteService.GetRandomQuote
QuoteService_GetRandomQuote(pick, be) ==
    LET r == quoteRepository_GetRandom(pick, be)
    IN  IF ~IsNil(r.err)
        THEN [quote |-> NoQuote, err |-> Wrap("failed to get random quote", r.err),
              calls |-> <<Call("GetRandom", << >>)>>]
        ELSE [quote |-> r.res, err |-> NilErr, calls |-> <<Call("GetRandom", << >>)>>]

\* a plausible slip: the id is tested with < 0, so 0 reaches the repository
QuoteService_DeleteQuote_ZeroPasses(id, be) ==
    LET r == quoteRepository_Delete(id, be)
    IN  IF id < 0
        THEN [err |-> WrapText(ErrInvalidQuote, <<"invalid quote ID">>),
              calls |-> << >>, table |-> table]
        ELSE IF ~IsNil(r.err)
        THEN [err |-> Wrap("failed to delete quote", r.err),
              calls |-> <<Call("Delete", id)>>, table |-> r.table]
        ELSE [err |-> NilErr, calls |-> <<Call("Delete", id)>>, table |-> r.table]

\* a plausible slip: the error of the repository is logged and dropped
QuoteService_DeleteQuote_ErrorDropped(id, be) ==
    LET r == quoteRepository_Delete(id, be)
    IN  IF id <= 0
        THEN [err |-> WrapText(ErrInvalidQuote, <<"invalid quote ID">>),
              calls |-> << >>, table |-> table]
        ELSE [err |-> NilErr, calls |-> <<Call("Delete", id)>>, table |-> r.table]

\* QuoteService.DeleteQuote
QuoteService_DeleteQuote(id, be) ==
    LET r == quoteRepository_Delete(id, be)
    IN  IF id <= 0
        THEN [err |-> WrapText(ErrInvalidQuote, <<"invalid quote ID">>),
              calls |-> << >>, table |-> table]
        ELSE IF ~IsNil(r.err)
        THEN [err |-> Wrap("failed to delete quote", r.err),
              calls |-> <<Call("Delete", id)>>, table |-> r.table]
        ELSE [err |-> NilErr, calls |-> <<Call("Delete", id)>>, table |-> r.table]

\* QuoteService.HealthCheck
QuoteService_HealthCheck(be) ==
    [err |-> quoteRepository_HealthCheck(be), calls |-> <<Call("HealthCheck", << >>)>>]

---------------------------------------------------------------------------
(* strconv.Atoi on a string given as its characters                         *)

\* bits of Go's int on the build target (GOARCH=amd64)
IntSize == 64

Digits == {"0", "1", "2", "3", "4", "5", "6", "7", "8", "9"}

DigitVal(c) == CHOOSE d \in 0..9 : ToString(d) = c

\* 2^63 - 1 and 2^63 in decimal
MaxIntDigits ==
    <<"9","2","2","3","3","7","2","0","3","6","8","5","4","7","7","5","8","0","7">>
MinIntDigits ==
    <<"9","2","2","3","3","7","2","0","3","6","8","5","4","7","7","5","8","0","8">>

RECURSIVE StripZeros(_)
StripZeros(d) ==
    IF d # << >> /\ Head(d) = "0" THEN StripZeros(Tail(d)) ELSE d

\* a < b for digit strings of one length
RECURSIVE DigitsLess(_, _)
DigitsLess(a, b) ==
    IF a = << >> THEN FALSE
    ELSE IF Head(a) # Head(b) THEN DigitVal(Head(a)) < DigitVal(Head(b))
    ELSE DigitsLess(Tail(a), Tail(b))

\* the magnitude d (no leading zero) fits the int
InRange(d, neg) ==
    LET lim == IF neg THEN MinIntDigits ELSE MaxIntDigits
    IN  \/ Len(d) < Len(lim)
        \/ Len(d) = Len(lim) /\ (d = lim \/ DigitsLess(d, lim))

RECURSIVE DigitsValue(_, _)
DigitsValue(d, acc) ==
    IF d = << >> THEN acc ELSE DigitsValue(Tail(d), acc * 10 + DigitVal(Head(d)))

\* strconv.Atoi: [ok, val]; an optional sign, then decimal digits only
Atoi(str) ==
    LET signed == str # << >> /\ Head(str) \in {"-", "+"}
        neg    == str # << >> /\ Head(str) = "-"
        body   == IF signed THEN Tail(str) ELSE str
        mag    == StripZeros(body)
    IN  IF body = << >> \/ \E i \in 1..Len(body) : body[i] \notin Digits
        THEN [ok |-> FALSE, val |-> 0]
        ELSE IF ~InRange(mag, neg)
        THEN [ok |-> FALSE, val |-> 0]
        ELSE [ok |-> TRUE,
              val |-> IF neg THEN 0 - DigitsValue(mag, 0) ELSE DigitsValue(mag, 0)]

---------------------------------------------------------------------------
(* handler.QuoteHandler                                                     *)

StatusOK == 200
StatusCreated == 201
StatusBadRequest == 400
StatusNotFound == 404
StatusMethodNotAllowed == 405
StatusInternalServerError == 500
StatusServiceUnavailable == 503

NoData == [kind |-> "none"]

\* Response{Data, Error, Message}
Response(data, error) == [Data |-> data, Error |-> error, Message |-> << >>]

\* the JSON value of Response.Data: a nil slice held in the interface is
\* not the nil interface and is written as null, a slice with elements as
\* an array, a struct, pointer to struct or map as an object
JsonValue(data) ==
    IF data.kind = "none" THEN [kind |-> "null"]
    ELSE IF data.kind = "quotes"
    THEN IF data.v.isNil THEN [kind |-> "null"]
         ELSE [kind |-> "array", v |-> data.v.items]
    ELSE [kind |-> "object", v |-> data.v]

\* the value written under a key of the envelope
JsonField(response, k) ==
    IF k = "data" THEN JsonValue(response.Data)
    ELSE IF k = "error" THEN response.Error
    ELSE response.Message

\* a plausible slip: the fields carry no omitempty tag
JsonEncode_NoOmitEmpty(response) ==
    [k \in {"data", "error", "message"} |-> JsonField(response, k)]

\* json.NewEncoder(w).Encode(response): the object written, as a function of
\* the keys present; omitempty drops the nil interface and the empty string
JsonEncode(response) ==
    LET keys == {k \in {"data", "error", "message"} :
                    \/ k = "data" /\ response.Data # NoData
                    \/ k = "error" /\ response.Error # << >>
                    \/ k = "message" /\ response.Message # << >>}
    IN  [k \in keys |-> JsonField(response, k)]

\* sendResponse, sendSuccess, sendError: the status and the envelope written
sendResponse(statusCode, response) ==
    [status |-> statusCode, body |-> response, by |-> "handler",
     json |-> JsonEncode(response)]

sendSuccess(statusCode, data) == sendResponse(statusCode, Response(data, << >>))

sendError(statusCode, message) == sendResponse(statusCode, Response(NoData, message))

\* json.NewDecoder(r.Body).Decode(&req): a body that is no JSON, or whose
\* fields are not strings, is an error; null and absent fields leave the
\* zero value
Decode(body) ==
    IF body.kind \in {"syntax", "type"}
    THEN [ok |-> FALSE, req |-> [Author |-> EmptyStr, Quote |-> EmptyStr]]
    ELSE IF body.kind = "null"
    THEN [ok |-> TRUE, req |-> [Author |-> EmptyStr, Quote |-> EmptyStr]]
    ELSE [ok |-> TRUE, req |-> [Author |-> body.Author, Quote |-> body.Quote]]

NoService == [err |-> NilErr, calls |-> << >>, called |-> FALSE]

\* a plausible slip: a validation failure is not told apart from a failure
\* of the store
QuoteHandler_CreateQuote_NoInvalidCheck(body, be) ==
    LET d == Decode(body)
        r == QuoteService_CreateQuote(d.req, be)
    IN  IF ~d.ok
        THEN [resp |-> sendError(StatusBadRequest, <<"Invalid JSON format">>),
              svc |-> NoService, table |-> table, nextID |-> nextID]
        ELSE IF ~IsNil(r.err)
        THEN [resp |-> sendError(StatusInternalServerError, <<"Failed to create quote">>),
              svc |-> [err |-> r.err, calls |-> r.calls, called |-> TRUE],
              table |-> r.table, nextID |-> r.nextID]
        ELSE [resp |-> sendSuccess(StatusCreated, [kind |-> "quote", v |-> r.quote[1]]),
              svc |-> [err |-> r.err, calls |-> r.calls, called |-> TRUE],
              table |-> r.table, nextID |-> r.nextID]

\* QuoteHandler.CreateQuote: the response, the service's outcome, the store
QuoteHandler_CreateQuote(body, be) ==
    LET d == Decode(body)
        r == QuoteService_CreateQuote(d.req, be)
    IN  IF ~d.ok
        THEN [resp |-> sendError(StatusBadRequest, <<"Invalid JSON format">>),
              svc |-> NoService, table |-> table, nextID |-> nextID]
        ELSE IF ~IsNil(r.err)
        THEN [resp |-> IF ErrorsIs(r.err, ErrInvalidQuote)
                       THEN sendError(StatusBadRequest, r.err.msg)
                       ELSE sendError(StatusInternalServerError, <<"Failed to create quote">>),
              svc |-> [err |-> r.err, calls |-> r.calls, called |-> TRUE],
              table |-> r.table, nextID |-> r.nextID]
        ELSE [resp |-> sendSuccess(StatusCreated, [kind |-> "quote", v |-> r.quote[1]]),
              svc |-> [err |-> r.err, calls |-> r.calls, called |-> TRUE],
              table |-> r.table, nextID |-> r.nextID]

\* the limit and offset parameters of GET /quotes, as GetQuotes reads them
ParseLimit(limitStr) ==
    LET a == Atoi(limitStr)
    IN  IF limitStr # << >> /\ a.ok /\ a.val > 0 THEN a.val ELSE 0

\* a plausible slip: the sign of the offset is not looked at
ParseOffset_AnySign(offsetStr) ==
    LET a == Atoi(offsetStr)
    IN  IF offsetStr # << >> /\ a.ok THEN a.val ELSE 0

ParseOffset(offsetStr) ==
    LET a == Atoi(offsetStr)
    IN  IF offsetStr # << >> /\ a.ok /\ a.val >= 0 THEN a.val ELSE 0

QueryFilter(q) ==
    [Author |-> q.author, Limit |-> ParseLimit(q.limit), Offset |-> ParseOffset(q.offset)]

\* QuoteHandler.GetQuotes
QuoteHandler_GetQuotes(q, ord, be) ==
    LET r == QuoteService_GetAllQuotes(QueryFilter(q), ord, be)
    IN  IF ~IsNil(r.err)
        THEN [resp |-> sendError(StatusInternalServerError, <<"Failed to get quotes">>),
              svc |-> [err |-> r.err, calls |-> r.calls, called |-> TRUE]]
        ELSE [resp |-> sendSuccess(StatusOK, [kind |-> "quotes", v |-> r.quotes]),
              svc |-> [err |-> r.err, calls |-> r.calls, called |-> TRUE]]

\* QuoteHandler.GetRandomQuote
QuoteHandler_GetRandomQuote(pick, be) ==
    LET r == QuoteService_GetRandomQuote(pick, be)
    IN  IF ~IsNil(r.err)
        THEN [resp |-> IF ErrorsIs(r.err, ErrQuoteNotFound)
                       THEN sendError(StatusNotFound, <<"No quotes found">>)
                       ELSE sendError(StatusInternalServerError,
                                      <<"Failed to get random quote">>),
              svc |-> [err |-> r.err, calls |-> r.calls, called |-> TRUE]]
        ELSE [resp |-> sendSuccess(StatusOK, [kind |-> "quote", v |-> r.quote[1]]),
              svc |-> [err |-> r.err, calls |-> r.calls, called |-> TRUE]]

\* a plausible slip: the 500 response carries the text of the error
QuoteHandler_DeleteQuote_ErrorText(idStr, be) ==
    LET a == Atoi(idStr)
        r == QuoteService_DeleteQuote(a.val, be)
    IN  IF ~a.ok
        THEN [resp |-> sendError(StatusBadRequest, <<"Invalid quote ID">>),
              svc |-> NoService, table |-> table]
        ELSE IF ~IsNil(r.err)
        THEN [resp |-> IF ErrorsIs(r.err, ErrQuoteNotFound)
                       THEN sendError(StatusNotFound, <<"Quote not found">>)
                       ELSE IF ErrorsIs(r.err, ErrInvalidQuote)
                       THEN sendError(StatusBadRequest, r.err.msg)
                       ELSE sendError(StatusInternalServerError, r.err.msg),
              svc |-> [err |-> r.err, calls |-> r.calls, called |-> TRUE],
              table |-> r.table]
        ELSE [resp |-> sendSuccess(StatusOK,
                          [kind |-> "map", v |-> "Quote deleted successfully"]),
              svc |-> [err |-> r.err, calls |-> r.calls, called |-> TRUE],
              table |-> r.table]

\* QuoteHandler.DeleteQuote; idStr is mux.Vars(r)["id"]
QuoteHandler_DeleteQuote(idStr, be) ==
    LET a == Atoi(idStr)
        r == QuoteService_DeleteQuote(a.val, be)
    IN  IF ~a.ok
        THEN [resp |-> sendError(StatusBadRequest, <<"Invalid quote ID">>),
              svc |-> NoService, table |-> table]
        ELSE IF ~IsNil(r.err)
        THEN [resp |-> IF ErrorsIs(r.err, ErrQuoteNotFound)
                       THEN sendError(StatusNotFound, <<"Quote not found">>)
                       ELSE IF ErrorsIs(r.err, ErrInvalidQuote)
                       THEN sendError(StatusBadRequest, r.err.msg)
                       ELSE sendError(StatusInternalServerError,
                                      <<"Failed to delete quote">>),
              svc |-> [err |-> r.err, calls |-> r.calls, called |-> TRUE],
              table |-> r.table]
        ELSE [resp |-> sendSuccess(StatusOK,
                          [kind |-> "map", v |-> "Quote deleted successfully"]),
              svc |-> [err |-> r.err, calls |-> r.calls, called |-> TRUE],
              table |-> r.table]

\* a plausible slip: the 503 branch is left out, the status is always 200
QuoteHandler_HealthCheck_Always200(be) ==
    LET r == QuoteService_HealthCheck(be)
        dbStatus == IF ~IsNil(r.err) THEN "disconnected" ELSE "connected"
    IN  [resp |-> sendSuccess(StatusOK,
                      [kind |-> "health",
                       v |-> [Status |-> "healthy", Database |-> dbStatus]]),
         svc |-> [err |-> r.err, calls |-> r.calls, called |-> TRUE]]

\* QuoteHandler.HealthCheck
QuoteHandler_HealthCheck(be) ==
    LET r == QuoteService_HealthCheck(be)
        dbStatus == IF ~IsNil(r.err) THEN "disconnected" ELSE "connected"
    IN  IF dbStatus = "disconnected"
        THEN [resp |-> sendResponse(StatusServiceUnavailable,
                          Response([kind |-> "health",
                                    v |-> [Status |-> "unhealthy", Database |-> dbStatus]],
                                   << >>)),
              svc |-> [err |-> r.err, calls |-> r.calls, called |-> TRUE]]
        ELSE [resp |-> sendSuccess(StatusOK,
                          [kind |-> "health",
                           v |-> [Status |-> "healthy", Database |-> dbStatus]]),
              svc |-> [err |-> r.err, calls |-> r.calls, called |-> TRUE]]

---------------------------------------------------------------------------
(* RegisterRoutes and the gorilla/mux router                                *)

\* a request path: /<base> or /<base>/<segment>, the segment as characters
Path(base, sub) == [base |-> base, sub |-> sub]

RandomSeg == <<"r", "a", "n", "d", "o", "m">>

\* the routes in the order RegisterRoutes adds them; sub is "none" for
\* /quotes, "random" for /quotes/random, "id" for /quotes/{id:[0-9]+}
Routes ==
    << [base |-> "quotes", sub |-> "none",   method |-> "POST",   handler |-> "CreateQuote"],
       [base |-> "quotes", sub |-> "none",   method |-> "GET",    handler |-> "GetQuotes"],
       [base |-> "quotes", sub |-> "random", method |-> "GET",    handler |-> "GetRandomQuote"],
       [base |-> "quotes", sub |-> "id",     method |-> "DELETE", handler |-> "DeleteQuote"],
       [base |-> "health", sub |-> "none",   method |-> "GET",    handler |-> "HealthCheck"] >>

\* the segment matches [0-9]+
IsDigits(seg) == seg # << >> /\ \A i \in 1..Len(seg) : seg[i] \in Digits

\* a plausible slip: the id pattern accepts any non-empty segment
PathMatches_AnyId(route, path) ==
    /\ route.base = path.base
    /\ \/ route.sub = "none" /\ path.sub = << >>
       \/ route.sub = "random" /\ path.sub = <<RandomSeg>>
       \/ route.sub = "id" /\ path.sub # << >> /\ path.sub[1] # << >>

\* the path template of a route matches the path
PathMatches(route, path) ==
    /\ route.base = path.base
    /\ \/ route.sub = "none" /\ path.sub = << >>
       \/ route.sub = "random" /\ path.sub = <<RandomSeg>>
       \/ route.sub = "id" /\ path.sub # << >> /\ IsDigits(path.sub[1])

\* mux.Router.Match from route i on: the first route whose path and method
\* match; when none does, 405 if some route matched the path, else 404
RECURSIVE MatchFrom(_, _, _, _)
MatchFrom(i, method, path, mismatch) ==
    IF i > Len(Routes)
    THEN IF mismatch THEN "MethodNotAllowed" ELSE "NotFound"
    ELSE IF PathMatches(Routes[i], path)
    THEN IF Routes[i].method = method THEN Routes[i].handler
         ELSE MatchFrom(i + 1, method, path, TRUE)
    ELSE MatchFrom(i + 1, method, path, mismatch)

Match(method, path) == MatchFrom(1, method, path, FALSE)

\* the answer of the router itself when no route serves the request
RouterResponse(h) ==
    [status |-> IF h = "MethodNotAllowed" THEN StatusMethodNotAllowed ELSE StatusNotFound,
     body |-> Response(NoData, << >>), by |-> "router"]

---------------------------------------------------------------------------
(* Inputs                                                                   *)

Req(a, q) == [Author |-> a, Quote |-> q]

AuthorA      == <<Run("A", 1)>>
AuthorPadded == <<Run("sp", 2), Run("A", 1), Run("sp", 2)>>
Author100    == <<Run("a", MaxAuthorLen)>>
AuthorPad100 == <<Run("sp", 1), Run("a", MaxAuthorLen), Run("tab", 1)>>
Author101    == <<Run("a", MaxAuthorLen + 1)>>
AuthorYa50   == <<Run("ya", MaxAuthorLen \div 2)>>
AuthorYa51   == <<Run("ya", MaxAuthorLen \div 2 + 1)>>
AuthorBlank  == <<Run("sp", 3)>>
AuthorTabs   == <<Run("tab", 1), Run("nbsp", 1)>>

QuoteQ       == <<Run("q", 1)>>
QuotePadded  == <<Run("sp", 2), Run("q", 1), Run("sp", 2)>>
Quote1000    == <<Run("q", MaxQuoteLen)>>
Quote1001    == <<Run("q", MaxQuoteLen + 1)>>
QuoteYa501   == <<Run("ya", MaxQuoteLen \div 2 + 1)>>
QuoteBlank   == <<Run("sp", 3)>>

\* requests of every validation outcome, alone and combined
Requests ==
    { Req(EmptyStr, QuoteQ), Req(AuthorBlank, EmptyStr), Req(AuthorTabs, QuoteQ),
      Req(EmptyStr, Quote1001), Req(AuthorA, EmptyStr), Req(AuthorA, QuoteBlank),
      Req(Author101, EmptyStr), Req(Author101, Quote1001), Req(Author101, QuoteQ),
      Req(AuthorA, Quote1001), Req(AuthorYa51, QuoteQ), Req(AuthorA, QuoteYa501),
      Req(AuthorA, QuoteQ), Req(AuthorPadded, QuotePadded),
      Req(AuthorPad100, Quote1000), Req(AuthorYa50, QuoteQ) }

\* bodies of POST /quotes
Bodies ==
    {[kind |-> k, Author |-> EmptyStr, Quote |-> EmptyStr] : k \in {"syntax", "type", "null"}}
        \cup {[kind |-> "object", Author |-> r.Author, Quote |-> r.Quote] : r \in Requests}

\* author filters: none, a letter, and a character LIKE reads as a wild card
FilterAuthors == {EmptyStr, <<Run("a", 1)>>, <<Run("_", 1)>>}

Limits == {0 - 1, 0, 1, DefaultLimit, MaxLimit, MaxLimit + 1}

Offsets == {0 - 1, 0, 1}

Filters == [Author : FilterAuthors, Limit : Limits, Offset : Offsets]

\* ids given to the service and the repository directly
Ids == (0 - 1)..(MaxId + 1)

TwentyNines == [i \in 1..20 |-> "9"]

\* the last segment of DELETE /quotes/<segment>
Segments ==
    {<<ToString(i)>> : i \in 0..(MaxId + 1)}
        \cup { <<"0", "1">>, <<"-", "1">>, <<"+", "1">>, <<"a">>, <<"1", "a">>, << >>,
               RandomSeg, TwentyNines }

\* values of the limit and offset query parameters
LimitStrs ==
    {<< >>, <<"a">>, <<"0">>, <<"-", "1">>, <<"2">>, <<"1", "0", "0", "1">>, TwentyNines}

OffsetStrs == {<< >>, <<"a">>, <<"1">>, <<"-", "1">>}

Queries == [author : FilterAuthors, limit : LimitStrs, offset : OffsetStrs]

Methods == {"GET", "POST", "DELETE"}

Paths ==
    {Path("quotes", << >>), Path("health", << >>), Path("other", << >>)}
        \cup {Path("quotes", <<g>>) : g \in Segments}

\* the backend's answers to a statement that reads
ReadBackends == {b \in Backends : b.kind # "lost"}

---------------------------------------------------------------------------
(* The state: the quotes table, its id sequence, the clock, the ids whose   *)
(* row a DELETE removed, and the last call with what it was given and gave  *)

NoResp == [status |-> 0, body |-> Response(NoData, << >>), by |-> "none"]

Done(op, in, be, out, calls, resp) ==
    [op |-> op, in |-> in, be |-> be, out |-> out, calls |-> calls, resp |-> resp]

\* no call is under way: the caller has taken the last result
Idle == Done("idle", << >>, BackendOk, << >>, << >>, NoResp)

Init ==
    /\ table = << >>
    /\ nextID = 1
    /\ now = 0
    /\ deleted = {}
    /\ last = Idle

\* the store after a call: ids that left the table are remembered
Store(t, n) ==
    /\ table' = t
    /\ nextID' = n
    /\ deleted' = deleted \cup (DOMAIN table \ DOMAIN t)
    /\ UNCHANGED now

\* time passes
Tick ==
    /\ last = Idle
    /\ now < MaxTime
    /\ now' = now + 1
    /\ UNCHANGED <<table, nextID, deleted, last>>

\* req.Validate() called on its own
CallValidate ==
    /\ last = Idle
    /\ \E req \in Requests :
        /\ last' = Done("Validate", req, BackendOk, Validate(req), << >>, NoResp)
        /\ UNCHANGED <<table, nextID, now, deleted>>

CallCreateQuote ==
    /\ last = Idle
    /\ \E req \in Requests, be \in Backends :
        LET r == QuoteService_CreateQuote(req, be)
        IN  /\ r.nextID <= MaxId + 1
            /\ last' = Done("CreateQuote", req, be,
                            [quote |-> r.quote, err |-> r.err], r.calls, NoResp)
            /\ Store(r.table, r.nextID)

CallGetAllQuotes ==
    /\ last = Idle
    /\ \E filter \in Filters, be \in ReadBackends :
        \E ord \in Orders(Matching(filter)) :
            LET r == QuoteService_GetAllQuotes(filter, ord, be)
            IN  /\ last' = Done("GetAllQuotes", filter, be,
                                [quotes |-> r.quotes, err |-> r.err], r.calls, NoResp)
                /\ UNCHANGED <<table, nextID, now, deleted>>

CallGetRandomQuote ==
    /\ last = Idle
    /\ \E be \in ReadBackends :
        \E pick \in (IF DOMAIN table = {} THEN {0} ELSE DOMAIN table) :
            LET r == QuoteService_GetRandomQuote(pick, be)
            IN  /\ last' = Done("GetRandomQuote", << >>, be,
                                [quote |-> r.quote, err |-> r.err], r.calls, NoResp)
                /\ UNCHANGED <<table, nextID, now, deleted>>

CallDeleteQuote ==
    /\ last = Idle
    /\ \E id \in Ids, be \in Backends :
        LET r == QuoteService_DeleteQuote(id, be)
        IN  /\ last' = Done("DeleteQuote", id, be, [err |-> r.err], r.calls, NoResp)
            /\ Store(r.table, nextID)

CallHealthCheck ==
    /\ last = Idle
    /\ \E be \in ReadBackends :
        LET r == QuoteService_HealthCheck(be)
        IN  /\ last' = Done("HealthCheck", << >>, be, [err |-> r.err], r.calls, NoResp)
            /\ UNCHANGED <<table, nextID, now, deleted>>

\* repository.GetByID called on its own (no service operation uses it)
CallGetByID ==
    /\ last = Idle
    /\ \E id \in Ids, be \in ReadBackends :
        LET r == quoteRepository_GetByID(id, be)
        IN  /\ last' = Done("GetByID", id, be, r, <<Call("GetByID", id)>>, NoResp)
            /\ UNCHANGED <<table, nextID, now, deleted>>

HttpIn(method, path, payload) == [method |-> method, path |-> path, payload |-> payload]

\* repository.Delete called on its own
CallDelete ==
    /\ last = Idle
    /\ \E id \in Ids, be \in Backends :
        LET r == quoteRepository_Delete(id, be)
        IN  /\ last' = Done("Delete", id, be, [err |-> r.err], <<Call("Delete", id)>>, NoResp)
            /\ Store(r.table, nextID)

\* repository.GetAll called on its own, with the filter as given
CallGetAll ==
    /\ last = Idle
    /\ \E filter \in Filters, be \in ReadBackends :
        \E ord \in Orders(Matching(filter)) :
            LET r == quoteRepository_GetAll(filter, ord, be)
            IN  /\ last' = Done("GetAll", filter, be, r, <<Call("GetAll", filter)>>, NoResp)
                /\ UNCHANGED <<table, nextID, now, deleted>>

\* repository.Count called on its own (no service operation uses it)
CallCount ==
    /\ last = Idle
    /\ \E filter \in Filters, be \in ReadBackends :
        LET r == quoteRepository_Count(filter, be)
        IN  /\ last' = Done("Count", filter, be, r, <<Call("Count", filter)>>, NoResp)
            /\ UNCHANGED <<table, nextID, now, deleted>>

\* POST /quotes
ServeCreateQuote ==
    /\ last = Idle
    /\ \E body \in Bodies, be \in Backends :
        LET r == QuoteHandler_CreateQuote(body, be)
        IN  /\ Match("POST", Path("quotes", << >>)) = "CreateQuote"
            /\ r.nextID <= MaxId + 1
            /\ last' = Done("HTTP CreateQuote", HttpIn("POST", Path("quotes", << >>), body),
                            be, r.svc, r.svc.calls, r.resp)
            /\ Store(r.table, r.nextID)

\* GET /quotes
ServeGetQuotes ==
    /\ last = Idle
    /\ \E q \in Queries, be \in ReadBackends :
        \E ord \in Orders(Matching(QueryFilter(q))) :
            LET r == QuoteHandler_GetQuotes(q, ord, be)
            IN  /\ Match("GET", Path("quotes", << >>)) = "GetQuotes"
                /\ last' = Done("HTTP GetQuotes", HttpIn("GET", Path("quotes", << >>), q),
                                be, r.svc, r.svc.calls, r.resp)
                /\ UNCHANGED <<table, nextID, now, deleted>>

\* GET /quotes/random
ServeGetRandomQuote ==
    /\ last = Idle
    /\ \E be \in ReadBackends :
        \E pick \in (IF DOMAIN table = {} THEN {0} ELSE DOMAIN table) :
            LET r == QuoteHandler_GetRandomQuote(pick, be)
            IN  /\ Match("GET", Path("quotes", <<RandomSeg>>)) = "GetRandomQuote"
                /\ last' = Done("HTTP GetRandomQuote",
                                HttpIn("GET", Path("quotes", <<RandomSeg>>), << >>),
                                be, r.svc, r.svc.calls, r.resp)
                /\ UNCHANGED <<table, nextID, now, deleted>>

\* DELETE /quotes/<segment>, for the segments the route accepts
ServeDeleteQuote ==
    /\ last = Idle
    /\ \E seg \in Segments, be \in Backends :
        LET r == QuoteHandler_DeleteQuote(seg, be)
        IN  /\ Match("DELETE", Path("quotes", <<seg>>)) = "DeleteQuote"
            /\ last' = Done("HTTP DeleteQuote", HttpIn("DELETE", Path("quotes", <<seg>>), << >>),
                            be, r.svc, r.svc.calls, r.resp)
            /\ Store(r.table, nextID)

\* GET /health
ServeHealthCheck ==
    /\ last = Idle
    /\ \E be \in ReadBackends :
        LET r == QuoteHandler_HealthCheck(be)
        IN  /\ Match("GET", Path("health", << >>)) = "HealthCheck"
            /\ last' = Done("HTTP HealthCheck", HttpIn("GET", Path("health", << >>), << >>),
                            be, r.svc, r.svc.calls, r.resp)
            /\ UNCHANGED <<table, nextID, now, deleted>>

\* a request no route serves: the router answers, no handler runs
ServeUnrouted ==
    /\ last = Idle
    /\ \E method \in Methods, path \in Paths :
        LET h == Match(method, path)
        IN  /\ h \in {"NotFound", "MethodNotAllowed"}
            /\ last' = Done("HTTP " \o h, HttpIn(method, path, << >>),
                            BackendOk, NoService, << >>, RouterResponse(h))
            /\ UNCHANGED <<table, nextID, now, deleted>>

\* the caller takes the result of the call; the next call may start
Return ==
    /\ last # Idle
    /\ last' = Idle
    /\ UNCHANGED <<table, nextID, now, deleted>>

Next ==
    \/ Tick
    \/ Return
    \/ CallValidate
    \/ CallCreateQuote
    \/ CallGetAllQuotes
    \/ CallGetRandomQuote
    \/ CallDeleteQuote
    \/ CallHealthCheck
    \/ CallGetByID
    \/ CallDelete
    \/ CallGetAll
    \/ CallCount
    \/ ServeCreateQuote
    \/ ServeGetQuotes
    \/ ServeGetRandomQuote
    \/ ServeDeleteQuote
    \/ ServeHealthCheck
    \/ ServeUnrouted

Spec == Init /\ [][Next]_vars

---------------------------------------------------------------------------
(* Properties                                                               *)

\* t is s without its leading and trailing white space: a stretch of s with
\* only white space before and after it, itself not starting or ending in it
IsTrimOf(t, s) ==
    /\ \E i \in 1..(Len(s) + 1), j \in 0..Len(s) :
          /\ t = SubSeq(s, i, j)
          /\ \A k \in 1..Len(s) : (k < i \/ k > j) => IsSpace(s[k].c)
    /\ t = << >> \/ (~IsSpace(t[1].c) /\ ~IsSpace(t[Len(t)].c))

MsgAuthorRequired == <<"author is required">>
MsgQuoteRequired  == <<"quote is required">>
MsgAuthorTooLong  == <<"author must be less than 100 characters">>
MsgQuoteTooLong   == <<"quote must be less than 1000 characters">>

\* C1: Validate trims both fields, then reports the first failing check in
\* the order author empty, quote empty, author longer than 100, quote longer
\* than 1000 (lengths as len() gives them), one message at most, and no
\* error exactly when all four checks pass.
C1_ValidateFirstFailingCheck ==
    last.op = "Validate" =>
        LET a == last.out.req.Author
            q == last.out.req.Quote
            m == last.out.err.msg
        IN  /\ IsTrimOf(a, last.in.Author)
            /\ IsTrimOf(q, last.in.Quote)
            /\ last.out.err.is = {}
            /\ Len(m) <= 1
            /\ a = EmptyStr => m = MsgAuthorRequired
            /\ (a # EmptyStr /\ q = EmptyStr) => m = MsgQuoteRequired
            /\ (a # EmptyStr /\ q # EmptyStr /\ ByteLen(a) > MaxAuthorLen)
                  => m = MsgAuthorTooLong
            /\ (a # EmptyStr /\ q # EmptyStr /\ ByteLen(a) <= MaxAuthorLen
                  /\ ByteLen(q) > MaxQuoteLen) => m = MsgQuoteTooLong
            /\ IsNil(last.out.err) <=>
                  (a # EmptyStr /\ q # EmptyStr /\ ByteLen(a) <= MaxAuthorLen
                      /\ ByteLen(q) <= MaxQuoteLen)

\* C1 witness: the author is too long and the quote is empty after trimming;
\* the one message is that of the earlier check
C1_Witness ==
    /\ last.op = "Validate"
    /\ last.in = Req(Author101, EmptyStr)
    /\ last.out.err.msg = MsgQuoteRequired

\* C2: a request that fails validation gets from QuoteService.CreateQuote no
\* quote and an error that is ErrInvalidQuote and carries the validation
\* message; the repository is not called and the store is left as it was.
C2_InvalidRequestLeavesStore ==
    [][(last'.op = "CreateQuote" /\ ~IsNil(Validate(last'.in).err)) =>
          /\ last'.out.quote = NoQuote
          /\ ErrorsIs(last'.out.err, ErrInvalidQuote)
          /\ ~ErrorsIs(last'.out.err, ErrQuoteNotFound)
          /\ last'.out.err.msg = ErrInvalidQuote.msg \o Validate(last'.in).err.msg
          /\ last'.calls = << >>
          /\ table' = table
          /\ nextID' = nextID]_vars

\* C2 witness: a white-space-only author is refused while the store holds a
\* quote, although the backend would have failed
C2_Witness ==
    /\ last.op = "CreateQuote"
    /\ last.in = Req(AuthorBlank, EmptyStr)
    /\ last.be.kind = "lost"
    /\ last.out.err.msg = <<"invalid quote data", "author is required">>
    /\ table # << >>

\* C3: a request whose trimmed author has 1..100 characters and whose trimmed
\* quote has 1..1000 characters passes validation, whatever the characters
\* are, and a length message is given only when the number of characters
\* exceeds the limit.
C3_LengthCountedInCharacters ==
    last.op = "Validate" =>
        LET a == last.out.req.Author
            q == last.out.req.Quote
            m == last.out.err.msg
        IN  /\ (a # EmptyStr /\ q # EmptyStr /\ CharLen(a) <= MaxAuthorLen
                  /\ CharLen(q) <= MaxQuoteLen) => IsNil(last.out.err)
            /\ m = MsgAuthorTooLong => CharLen(a) > MaxAuthorLen
            /\ m = MsgQuoteTooLong => CharLen(q) > MaxQuoteLen

\* the request a create call was given and the quote it gave back, for the
\* service called on its own and for POST /quotes with a decodable body
IsCreate == last.op \in {"CreateQuote", "HTTP CreateQuote"}

CreateReq ==
    IF last.op = "CreateQuote" THEN last.in ELSE Decode(last.in.payload).req

CreateSucceeded ==
    IF last.op = "CreateQuote" THEN IsNil(last.out.err)
    ELSE last.resp.status = StatusCreated

CreatedQuote ==
    IF last.op = "CreateQuote" THEN last.out.quote[1] ELSE last.resp.body.Data.v

CreateAttempted ==
    IF last.op = "CreateQuote" THEN TRUE ELSE Decode(last.in.payload).ok

\* C4: a request that passes validation is stored (the backend answering) and
\* returned with author and text being the request's fields without their
\* leading and trailing white space, and GetByID on the returned id gives
\* that record.
C4_CreateRoundTrip ==
    (IsCreate /\ CreateAttempted) =>
        /\ (IsNil(Validate(CreateReq).err) /\ last.be.kind = "ok") => CreateSucceeded
        /\ CreateSucceeded =>
              /\ IsTrimOf(CreatedQuote.Author, CreateReq.Author)
              /\ IsTrimOf(CreatedQuote.Text, CreateReq.Quote)
              /\ CreatedQuote.CreatedAt = CreatedQuote.UpdatedAt
              /\ CreatedQuote.ID \in DOMAIN table
              /\ table[CreatedQuote.ID] = CreatedQuote
              /\ quoteRepository_GetByID(CreatedQuote.ID, BackendOk)
                    = [res |-> <<CreatedQuote>>, err |-> NilErr]

\* C4 witness: "  A  ", "  q  " is stored and returned as "A", "q"
C4_Witness ==
    /\ last.op = "HTTP CreateQuote"
    /\ last.in.payload.Author = AuthorPadded
    /\ last.in.payload.Quote = QuotePadded
    /\ last.resp.status = StatusCreated
    /\ last.resp.body.Data.v.Author = AuthorA
    /\ last.resp.body.Data.v.Text = QuoteQ
    /\ table[last.resp.body.Data.v.ID].Author = AuthorA

\* C5: the limit GetAllQuotes hands to repository.GetAll is 100 for a limit
\* <= 0, 1000 for a limit > 1000 and the limit itself in between, so it is
\* always in 1..1000; author and offset are handed on as given.
C5_LimitClamped ==
    last.op = "GetAllQuotes" =>
        /\ Len(last.calls) = 1
        /\ last.calls[1].op = "GetAll"
        /\ LET f == last.calls[1].arg
           IN  /\ last.in.Limit <= 0 => f.Limit = DefaultLimit
               /\ last.in.Limit > MaxLimit => f.Limit = MaxLimit
               /\ (1 <= last.in.Limit /\ last.in.Limit <= MaxLimit) => f.Limit = last.in.Limit
               /\ f.Limit \in 1..MaxLimit
               /\ f.Author = last.in.Author
               /\ f.Offset = last.in.Offset

\* C5 witness: a limit of 1001 reaches the repository as 1000
C5_Witness ==
    /\ last.op = "GetAllQuotes"
    /\ last.in.Limit = MaxLimit + 1
    /\ last.calls[1].arg.Limit = MaxLimit

\* C6: for an id <= 0 DeleteQuote returns an error that is ErrInvalidQuote,
\* calls no repository operation and leaves the store as it was.
C6_NonPositiveIdRejected ==
    [][(last'.op = "DeleteQuote" /\ last'.in <= 0) =>
          /\ ErrorsIs(last'.out.err, ErrInvalidQuote)
          /\ ~ErrorsIs(last'.out.err, ErrQuoteNotFound)
          /\ last'.calls = << >>
          /\ table' = table
          /\ deleted' = deleted]_vars

\* C6 witness: id 0 is refused while the store holds a quote
C6_Witness ==
    /\ last.op = "DeleteQuote"
    /\ last.in = 0
    /\ ErrorsIs(last.out.err, ErrInvalidQuote)
    /\ last.calls = << >>
    /\ table # << >>

\* C7: with the backend answering, Delete of an id that is not in the store
\* fails with not-found and changes nothing; Delete of an id that is in the
\* store succeeds and removes that row and no other; from then on the id is
\* never in the store again, and GetByID and Delete on it fail with
\* not-found, whatever is created or deleted meanwhile: new rows take the
\* next id of a sequence that only grows.
C7_DeleteIsPermanent ==
    [][/\ (last'.op = "Delete" /\ last'.be.kind = "ok" /\ last'.in \notin DOMAIN table) =>
              /\ last'.out.err = ErrQuoteNotFound
              /\ table' = table
       /\ (last'.op = "Delete" /\ last'.be.kind = "ok" /\ last'.in \in DOMAIN table) =>
              /\ IsNil(last'.out.err)
              /\ DOMAIN table' = DOMAIN table \ {last'.in}
              /\ \A i \in DOMAIN table' : table'[i] = table[i]
              /\ last'.in \in deleted'
       /\ (last'.op \in {"Delete", "GetByID"} /\ last'.be.kind = "ok"
              /\ last'.in \in deleted) =>
              /\ ErrorsIs(last'.out.err, ErrQuoteNotFound)
              /\ table' = table
       /\ deleted \subseteq deleted'
       /\ deleted' \cap DOMAIN table' = {}
       /\ nextID' >= nextID
       /\ \A i \in DOMAIN table' \ DOMAIN table :
              i = nextID /\ nextID' > i /\ \A j \in DOMAIN table \cup deleted : j < i
      ]_vars

\* C7 witness: a row was deleted, a later row was created, and GetByID on
\* the deleted id fails with not-found
C7_Witness ==
    /\ last.op = "GetByID"
    /\ last.in \in deleted
    /\ last.out.err = ErrQuoteNotFound
    /\ \E j \in DOMAIN table : j > last.in

\* C8: with the backend answering, GetRandomQuote fails with not-found when
\* the store is empty and returns a row of the store when it is not; a quote
\* it returns is always a row the store holds now, never a deleted one.
C8_RandomQuoteIsStored ==
    last.op \in {"GetRandomQuote", "HTTP GetRandomQuote"} =>
        LET viaHttp == last.op = "HTTP GetRandomQuote"
            err     == last.out.err
            got     == IF viaHttp
                       THEN (IF last.resp.body.Data.kind = "quote"
                             THEN <<last.resp.body.Data.v>> ELSE NoQuote)
                       ELSE last.out.quote
        IN  /\ (last.be.kind = "ok" /\ DOMAIN table = {}) =>
                  /\ ErrorsIs(err, ErrQuoteNotFound)
                  /\ got = NoQuote
            /\ (last.be.kind = "ok" /\ DOMAIN table # {}) =>
                  /\ IsNil(err)
                  /\ got # NoQuote
            /\ got # NoQuote =>
                  /\ got[1].ID \in DOMAIN table
                  /\ table[got[1].ID] = got[1]
                  /\ got[1].ID \notin deleted
            /\ last.calls = <<Call("GetRandom", << >>)>>

\* C8 witness: a quote is returned from a store that has seen a delete
C8_Witness ==
    /\ last.op = "GetRandomQuote"
    /\ last.out.quote # NoQuote
    /\ deleted # {}
    /\ last.out.quote[1].ID \in DOMAIN table

\* C9: the status the create, list, random and delete handlers write is
\* fixed by the class of the outcome: 201 (create) or 200 on success, 400
\* for a body that does not decode, an id that does not parse or an
\* ErrInvalidQuote error, 404 for an ErrQuoteNotFound error, 500 for any
\* other error of the service; they write no other status.
C9_StatusByOutcome ==
    last.op \in {"HTTP CreateQuote", "HTTP GetQuotes", "HTTP GetRandomQuote",
                 "HTTP DeleteQuote"} =>
        LET st  == last.resp.status
            svc == last.out
            ok  == IF last.op = "HTTP CreateQuote" THEN StatusCreated ELSE StatusOK
        IN  /\ last.resp.by = "handler"
            /\ st \in {StatusOK, StatusCreated, StatusBadRequest, StatusNotFound,
                       StatusInternalServerError}
            /\ ~svc.called => st = StatusBadRequest
            /\ ~svc.called =>
                  \/ last.op = "HTTP CreateQuote" /\ last.in.payload.kind \in {"syntax", "type"}
                  \/ last.op = "HTTP DeleteQuote" /\ ~Atoi(last.in.path.sub[1]).ok
            /\ (svc.called /\ IsNil(svc.err)) => st = ok
            /\ (svc.called /\ ErrorsIs(svc.err, ErrInvalidQuote)) => st = StatusBadRequest
            /\ (svc.called /\ ErrorsIs(svc.err, ErrQuoteNotFound)) => st = StatusNotFound
            /\ (svc.called /\ ~IsNil(svc.err) /\ ~ErrorsIs(svc.err, ErrInvalidQuote)
                  /\ ~ErrorsIs(svc.err, ErrQuoteNotFound)) => st = StatusInternalServerError
            /\ st = ok <=> (svc.called /\ IsNil(svc.err))

\* C9 witness: a validation failure of POST /quotes is answered 400 while
\* the backend is down
C9_Witness ==
    /\ last.op = "HTTP CreateQuote"
    /\ last.in.payload.kind = "object"
    /\ last.be.kind = "fail"
    /\ last.out.called
    /\ ErrorsIs(last.out.err, ErrInvalidQuote)
    /\ last.resp.status = StatusBadRequest

\* l records a DELETE request for /quotes/<segment>
IsDeleteById(l) ==
    /\ l.op \in {"HTTP DeleteQuote", "HTTP NotFound", "HTTP MethodNotAllowed"}
    /\ l.in.method = "DELETE"
    /\ l.in.path.base = "quotes"
    /\ l.in.path.sub # << >>

DeleteSeg(l) == l.in.path.sub[1]

\* the segment is an unsigned integer that an int can hold
WellFormedId(seg) == IsDigits(seg) /\ Atoi(seg).ok

\* the segment names a positive id that the store t does not hold
AbsentId(seg, t) ==
    WellFormedId(seg) /\ Atoi(seg).val > 0 /\ Atoi(seg).val \notin DOMAIN t

---------------------------------------------------------------------------
(* The response envelope                                                    *)

\* the handler answered with a success status, or served the health check
\* (whose 503 also carries data)
IsDataResponse(l) ==
    \/ l.resp.status \in {StatusOK, StatusCreated}
    \/ l.op = "HTTP HealthCheck"

---------------------------------------------------------------------------
(* Listing                                                                  *)

\* C12 as claimed: when no row matches the filter, or the offset is past the
\* last match, repository.GetAll returns an empty slice that is not nil, and
\* GET /quotes answers 200 with data being an empty array.
C12_EmptyResultIsEmptyArray ==
    /\ (last.op = "GetAll" /\ IsNil(last.out.err) /\ last.out.res.items = << >>)
          => ~last.out.res.isNil
    /\ (last.op = "HTTP GetQuotes" /\ last.resp.status = StatusOK
            /\ last.resp.body.Data.v.items = << >>)
          => last.resp.json.data = [kind |-> "array", v |-> << >>]

\* letters that differ only in case, taken as one
FoldCase(c) == IF c = "A" THEN "a" ELSE c

\* the characters f occur in the characters a as one stretch, case aside
ContainsLiteral(a, f) ==
    \E k \in 0..(Len(a) - Len(f)) :
        \A j \in 1..Len(f) : FoldCase(a[k + j]) = FoldCase(f[j])

\* ids of the stored rows whose author contains the filter text literally
LiteralMatches(author) ==
    {i \in DOMAIN table : ContainsLiteral(Expand(table[i].Author), Expand(author))}

\* C13 as claimed: GetAll and Count match exactly the stored rows whose
\* author contains the filter string as a literal, case-insensitive
\* substring, every character of the filter standing for itself; the empty
\* filter matches every row.
C13_AuthorFilterIsLiteral ==
    /\ (last.op = "Count" /\ IsNil(last.out.err))
          => last.out.res = Cardinality(LiteralMatches(last.in.Author))
    /\ (last.op = "GetAll" /\ IsNil(last.out.err)
            /\ last.in.Limit <= 0 /\ last.in.Offset <= 0)
          => {last.out.res.items[i] : i \in 1..Len(last.out.res.items)}
                = {table[i] : i \in LiteralMatches(last.in.Author)}

\* the limit GetAllQuotes works with: 100 when none is given, at most 1000
EffectiveLimit(limit) ==
    IF limit <= 0 THEN DefaultLimit ELSE IF limit > MaxLimit THEN MaxLimit ELSE limit

\* C14: the result of GetAllQuotes is the window [offset, offset + limit) of
\* the rows the filter keeps, newest first, limit being the clamped limit:
\* at most limit (<= 1000) rows, exactly offset rows skipped, no row before
\* a newer one.
C14_ListIsWindowNewestFirst ==
    (last.op = "GetAllQuotes" /\ IsNil(last.out.err) /\ last.in.Offset >= 0) =>
        LET M    == {table[i] : i \in Matching(last.in)}
            off  == last.in.Offset
            lim  == EffectiveLimit(last.in.Limit)
            r    == last.out.quotes.items
            n    == Len(r)
            rest == Cardinality(M) - off
        IN  /\ n <= lim
            /\ lim <= MaxLimit
            /\ n = (IF rest < 0 THEN 0 ELSE IF rest < lim THEN rest ELSE lim)
            /\ \A i \in 1..n : r[i] \in M
            /\ \A i, j \in 1..n : i < j => (r[i] # r[j] /\ r[i].CreatedAt >= r[j].CreatedAt)
            /\ n > 0 =>
                  /\ Cardinality({m \in M : m.CreatedAt > r[1].CreatedAt}) <= off
                  /\ Cardinality({m \in M : m.CreatedAt < r[n].CreatedAt})
                        <= Cardinality(M) - off - n

\* C14 witness: two stored quotes of different age match the author filter
\* and limit = 1, offset = 1 returns exactly the older one
C14_Witness ==
    /\ last.op = "GetAllQuotes"
    /\ IsNil(last.out.err)
    /\ last.in.Author # EmptyStr
    /\ last.in.Limit = 1
    /\ last.in.Offset = 1
    /\ Cardinality(Matching(last.in)) = 2
    /\ Len(last.out.quotes.items) = 1
    /\ \E i \in DOMAIN table : table[i].CreatedAt > last.out.quotes.items[1].CreatedAt

---------------------------------------------------------------------------
(* Health                                                                   *)

\* C15: GET /health always gets a response of the handler: 200 with status
\* "healthy" and database "connected" exactly when the liveness probe of the
\* repository succeeds, 503 with status "unhealthy" and database
\* "disconnected" otherwise; no other combination is written.
C15_HealthFollowsProbe ==
    last.op = "HTTP HealthCheck" =>
        LET h == last.resp.body.Data.v
        IN  /\ last.resp.by = "handler"
            /\ last.calls = <<Call("HealthCheck", << >>)>>
            /\ \/ /\ last.resp.status = StatusOK
                  /\ h = [Status |-> "healthy", Database |-> "connected"]
               \/ /\ last.resp.status = StatusServiceUnavailable
                  /\ h = [Status |-> "unhealthy", Database |-> "disconnected"]
            /\ last.resp.status = StatusOK <=> last.be.kind = "ok"

\* C15 witness: the probe fails and the health check answers 503 unhealthy
C15_Witness ==
    /\ last.op = "HTTP HealthCheck"
    /\ last.be.kind = "fail"
    /\ last.resp.status = StatusServiceUnavailable
    /\ last.resp.body.Data.v.Database = "disconnected"
    /\ table # << >>

---------------------------------------------------------------------------
(* What a failure of the store shows to the client                          *)

\* the messages the handler writes with status 500
GenericMessages ==
    { <<"Failed to create quote">>, <<"Failed to get quotes">>,
      <<"Failed to get random quote">>, <<"Failed to delete quote">>,
      <<"Internal server error">> }

\* the responses the handler can give to the request recorded in l when the
\* backend behaves as be, in the store as it is
Responses(l, be) ==
    IF l.op = "HTTP CreateQuote"
    THEN {QuoteHandler_CreateQuote(l.in.payload, be).resp}
    ELSE IF l.op = "HTTP GetQuotes"
    THEN {QuoteHandler_GetQuotes(l.in.payload, ord, be).resp :
              ord \in Orders(Matching(QueryFilter(l.in.payload)))}
    ELSE IF l.op = "HTTP GetRandomQuote"
    THEN {QuoteHandler_GetRandomQuote(pick, be).resp :
              pick \in (IF DOMAIN table = {} THEN {0} ELSE DOMAIN table)}
    ELSE IF l.op = "HTTP DeleteQuote"
    THEN {QuoteHandler_DeleteQuote(l.in.path.sub[1], be).resp}
    ELSE {QuoteHandler_HealthCheck(be).resp}

\* C16: a failure of the store shows no internal detail: the response to a
\* request (status and body) is the same whatever the text of the backend's
\* error, and every 500 response carries one of a fixed set of messages and
\* nothing else.
C16_NoBackendDetailInResponse ==
    [][last'.resp.by = "handler" =>
          /\ last'.be.kind # "ok" =>
                \A d \in BackendErrors :
                    Responses(last', [kind |-> last'.be.kind, detail |-> d]) = {last'.resp}
          /\ last'.resp.status = StatusInternalServerError =>
                \E m \in GenericMessages : last'.resp.json = [error |-> m]]_vars

\* C16 witness: DELETE /quotes/1 of a stored quote, the answer of the
\* backend lost, is answered 500 "Failed to delete quote"
C16_Witness ==
    /\ last.op = "HTTP DeleteQuote"
    /\ last.be = [kind |-> "lost", detail |-> "connection refused"]
    /\ last.calls # << >>
    /\ deleted # {}
    /\ last.resp.status = StatusInternalServerError
    /\ last.resp.json = [error |-> <<"Failed to delete quote">>]

---------------------------------------------------------------------------
(* The text of the queries                                                  *)

\* two filters ask for the same clauses
SameShape(f, g) ==
    /\ (f.Author = EmptyStr) <=> (g.Author = EmptyStr)
    /\ (f.Limit > 0) <=> (g.Limit > 0)
    /\ (f.Offset > 0) <=> (g.Offset > 0)

\* the text the repository operation op issues for a filter
QueryOf(op, f) == IF op = "GetAll" THEN GetAllQuery(f) ELSE CountQuery(f)

\* the positions of the placeholders in a query, in order
ParamPositions(q, i) ==
    {k \in 1..Len(q) : q[k].param # 0 /\ Cardinality({h \in 1..k : q[h].param # 0}) = i}

\* the value that belongs to the placeholder following the literal text t
ValueFor(t, f) ==
    IF t = "author ILIKE " THEN StrArg(<<"%">> \o Expand(f.Author) \o <<"%">>)
    ELSE IF t = " LIMIT " THEN IntArg(f.Limit)
    ELSE IntArg(f.Offset)

\* C17: the query text does not depend on the values of the filter: filters
\* that agree on whether author is empty, limit > 0 and offset > 0 give the
\* identical text in GetAll (and in Count), and the author pattern, limit
\* and offset reach the backend only as bound arguments, the i-th
\* placeholder of the text being $i and bound to the i-th argument appended.
C17_QueryTextIndependentOfInput ==
    last.op \in {"GetAll", "Count"} =>
        LET q == last.out.query
            a == last.out.args
            f == last.in
            np == Cardinality({k \in 1..Len(q) : q[k].param # 0})
        IN  /\ \A g \in Filters : SameShape(f, g) => QueryOf(last.op, g) = q
            /\ np = Len(a)
            /\ \A i \in 1..np : \A k \in ParamPositions(q, i) :
                  /\ q[k].param = i
                  /\ k > 1
                  /\ q[k - 1].text \in {"author ILIKE ", " LIMIT ", " OFFSET "}
                  /\ a[i] = ValueFor(q[k - 1].text, f)
            /\ (f.Author # EmptyStr) <=> (\E k \in 1..Len(q) : q[k].text = "author ILIKE ")
            /\ last.op = "GetAll" =>
                  /\ (f.Limit > 0) <=> (\E k \in 1..Len(q) : q[k].text = " LIMIT ")
                  /\ (f.Offset > 0) <=> (\E k \in 1..Len(q) : q[k].text = " OFFSET ")

\* C17 witness: GetAll without an author filter, with limit and offset: the
\* text has LIMIT $1 OFFSET $2 and the two values are bound in that order
C17_Witness ==
    /\ last.op = "GetAll"
    /\ last.in.Author = EmptyStr
    /\ last.in.Limit > 0
    /\ last.in.Offset > 0
    /\ last.out.args = <<IntArg(last.in.Limit), IntArg(last.in.Offset)>>
    /\ table # << >>

---------------------------------------------------------------------------
(* Deadlines: the contexts a request hands down, and what a call does when  *)
(* the context of its storage operation is done.  The clock counts seconds. *)

\* the last reading of the clock
MaxClock == 12

\* a context.Context: whether it has a deadline, and when it lapses
NoDeadline == [has |-> FALSE, at |-> 0]

Deadline(t) == [has |-> TRUE, at |-> t]

\* a plausible slip: the deadline of the parent is not looked at
WithTimeout_IgnoresParent(parent, timeout, t) == Deadline(t + timeout)

\* context.WithTimeout(parent, timeout) called at time t: the parent's
\* deadline stays when it is the earlier one
WithTimeout(parent, timeout, t) ==
    IF parent.has /\ parent.at < t + timeout THEN parent ELSE Deadline(t + timeout)

Operations == {"CreateQuote", "GetAllQuotes", "GetRandomQuote", "DeleteQuote", "HealthCheck"}

\* the timeout each handler puts on r.Context()
HandlerTimeout(name) ==
    IF name = "GetAllQuotes" THEN 15 ELSE IF name = "HealthCheck" THEN 5 ELSE 10

\* the timeout each service operation puts on its caller's context
ServiceTimeout(name) ==
    IF name = "GetAllQuotes" THEN 10 ELSE IF name = "HealthCheck" THEN 3 ELSE 5

\* the context is done by its deadline
CtxDone(c) == c.has /\ now >= c.at

\* the error of a storage operation whose context is done: the statement
\* did not run, or (when it writes) it ran and its answer was given up
CtxOutcomes(name, text) ==
    [kind : IF name \in {"CreateQuote", "DeleteQuote"} THEN {"fail", "lost"} ELSE {"fail"},
     detail : {text}]

\* the requests whose timing is followed
TimedBody == [kind |-> "object", Author |-> AuthorA, Quote |-> QuoteQ]

TimedQuery == [author |-> EmptyStr, limit |-> << >>, offset |-> << >>]

TimedId == <<"1">>

Picks == IF DOMAIN table = {} THEN {0} ELSE DOMAIN table

Result(err, calls, resp, t, n) ==
    [err |-> err, calls |-> calls, resp |-> resp, table |-> t, nextID |-> n]

\* the results of a handler or a service operation in one shape: the error
\* of the service, its repository calls, the response and the store left
ResultOf(r) ==
    LET s == IF "svc" \in DOMAIN r THEN r.svc ELSE r
    IN  Result(s.err, s.calls,
               IF "resp" \in DOMAIN r THEN r.resp ELSE NoResp,
               IF "table" \in DOMAIN r THEN r.table ELSE table,
               IF "nextID" \in DOMAIN r THEN r.nextID ELSE nextID)

\* what the handler of the operation gives when the backend behaves as be
HandlerOutcomes(name, be) ==
    IF name = "CreateQuote"
    THEN {ResultOf(QuoteHandler_CreateQuote(TimedBody, be))}
    ELSE IF name = "GetAllQuotes"
    THEN {ResultOf(QuoteHandler_GetQuotes(TimedQuery, ord, be)) :
              ord \in Orders(Matching(QueryFilter(TimedQuery)))}
    ELSE IF name = "GetRandomQuote"
    THEN {ResultOf(QuoteHandler_GetRandomQuote(pick, be)) : pick \in Picks}
    ELSE IF name = "DeleteQuote"
    THEN {ResultOf(QuoteHandler_DeleteQuote(TimedId, be))}
    ELSE {ResultOf(QuoteHandler_HealthCheck(be))}

\* what the service operation gives, called without the handler
ServiceOutcomes(name, be) ==
    IF name = "CreateQuote"
    THEN {ResultOf(QuoteService_CreateQuote(Decode(TimedBody).req, be))}
    ELSE IF name = "GetAllQuotes"
    THEN {ResultOf(QuoteService_GetAllQuotes(QueryFilter(TimedQuery), ord, be)) :
              ord \in Orders(Matching(QueryFilter(TimedQuery)))}
    ELSE IF name = "GetRandomQuote"
    THEN {ResultOf(QuoteService_GetRandomQuote(pick, be)) : pick \in Picks}
    ELSE IF name = "DeleteQuote"
    THEN {ResultOf(QuoteService_DeleteQuote(Atoi(TimedId).val, be))}
    ELSE {ResultOf(QuoteService_HealthCheck(be))}

Outcomes(name, via, be) ==
    IF via = "http" THEN HandlerOutcomes(name, be) ELSE ServiceOutcomes(name, be)

\* the seconds a caller leaves to a request, where it sets a deadline
InboundBudgets == {2, 4, 7, 12, 20}

InboundContexts == {NoDeadline} \cup {Deadline(now + k) : k \in InboundBudgets}

\* a call whose storage operation is under way: reqCtx is the caller's
\* context, ctx the one the service operation is given, dbCtx the one it
\* gives to the repository
InFlight(name, via, reqCtx, ctx, dbCtx) ==
    [op |-> "in flight", name |-> name, via |-> via, reqCtx |-> reqCtx, ctx |-> ctx,
     dbCtx |-> dbCtx, started |-> now, ended |-> now, why |-> "", be |-> BackendOk,
     err |-> NilErr, calls |-> << >>, resp |-> NoResp]

\* the call has returned
Finished(f, why, be, o) ==
    [f EXCEPT !.op = "finished", !.ended = now, !.why = why, !.be = be,
              !.err = o.err, !.calls = o.calls, !.resp = o.resp]

InitTimed ==
    /\ table = (1 :> [ID |-> 1, Author |-> AuthorA, Text |-> QuoteQ,
                      CreatedAt |-> 0, UpdatedAt |-> 0])
    /\ nextID = 2
    /\ now = 0
    /\ deleted = {}
    /\ last = Idle

ClockTick ==
    /\ now < MaxClock
    /\ now' = now + 1
    /\ UNCHANGED <<table, nextID, deleted, last>>

\* a request for the operation arrives over HTTP, or the service operation
\* is called directly with the caller's context; the call runs up to its
\* storage operation
Begin(name) ==
    /\ last = Idle
    /\ \E via \in {"http", "direct"}, reqCtx \in InboundContexts :
        LET ctx   == IF via = "http"
                     THEN WithTimeout(reqCtx, HandlerTimeout(name), now) ELSE reqCtx
            dbCtx == WithTimeout(ctx, ServiceTimeout(name), now)
        IN  last' = InFlight(name, via, reqCtx, ctx, dbCtx)
    /\ UNCHANGED <<table, nextID, now, deleted>>

BeginCreateQuote == Begin("CreateQuote")

BeginGetAllQuotes == Begin("GetAllQuotes")

BeginGetRandomQuote == Begin("GetRandomQuote")

BeginDeleteQuote == Begin("DeleteQuote")

BeginHealthCheck == Begin("HealthCheck")

\* the backend answers while the context of the storage operation is live
StorageAnswers ==
    /\ last.op = "in flight"
    /\ ~CtxDone(last.dbCtx)
    /\ \E o \in Outcomes(last.name, last.via, BackendOk) :
        /\ o.nextID <= MaxId + 1
        /\ last' = Finished(last, "answer", BackendOk, o)
        /\ Store(o.table, o.nextID)

\* the deadline of the storage operation's context passes before an answer:
\* the driver gives up and returns the context's error
DeadlineLapses ==
    /\ last.op = "in flight"
    /\ CtxDone(last.dbCtx)
    /\ \E be \in CtxOutcomes(last.name, "context deadline exceeded") :
        \E o \in Outcomes(last.name, last.via, be) :
            /\ o.nextID <= MaxId + 1
            /\ last' = Finished(last, "deadline", be, o)
            /\ Store(o.table, o.nextID)

\* the caller cancels its context before an answer (over HTTP: the client
\* goes away); every context derived from it is done at once
RequestCancelled ==
    /\ last.op = "in flight"
    /\ \E be \in CtxOutcomes(last.name, "context canceled") :
        \E o \in Outcomes(last.name, last.via, be) :
            /\ o.nextID <= MaxId + 1
            /\ last' = Finished(last, "cancel", be, o)
            /\ Store(o.table, o.nextID)

NextTimed ==
    \/ ClockTick
    \/ BeginCreateQuote
    \/ BeginGetAllQuotes
    \/ BeginGetRandomQuote
    \/ BeginDeleteQuote
    \/ BeginHealthCheck
    \/ StorageAnswers
    \/ DeadlineLapses
    \/ RequestCancelled

SpecTimed == InitTimed /\ [][NextTimed]_vars

\* the budget of each service operation, in seconds
OwnBudget(name) ==
    IF name \in {"CreateQuote", "GetRandomQuote", "DeleteQuote"} THEN 5
    ELSE IF name = "GetAllQuotes" THEN 10
    ELSE 3

\* C18: the deadline a service operation gives to its repository call is the
\* earlier of its caller's deadline and its own budget counted from the call
\* (5s create, random, delete; 10s list; 3s health check): it is never
\* later than the caller's deadline nor than the call plus the budget.
C18_RepositoryDeadlineIsEarlier ==
    last.op \in {"in flight", "finished"} =>
        LET own == last.started + OwnBudget(last.name)
            c   == last.ctx
            d   == last.dbCtx
        IN  /\ d.has
            /\ d.at = (IF c.has /\ c.at < own THEN c.at ELSE own)
            /\ c.has => d.at <= c.at
            /\ d.at <= own

\* C18 witness: the list operation is called with 7 seconds left to its
\* caller, less than its own 10: the repository gets the caller's deadline
C18_Witness ==
    /\ last.op = "in flight"
    /\ last.name = "GetAllQuotes"
    /\ last.started > 0
    /\ last.ctx = Deadline(last.started + 7)
    /\ last.dbCtx = last.ctx

\* C19: when the inbound request is cancelled, or a deadline lapses, while
\* the storage operation is in flight, the service operation returns an
\* error, never success, and the handler answers with an error status.
C19_DoneContextGivesError ==
    (last.op = "finished" /\ last.why \in {"deadline", "cancel"}) =>
        /\ ~IsNil(last.err)
        /\ Len(last.calls) = 1
        /\ last.via = "http" =>
              /\ last.resp.by = "handler"
              /\ last.resp.status \notin {StatusOK, StatusCreated}
              /\ last.resp.status >= StatusBadRequest

\* C19 witness: DELETE /quotes/1 is in flight when the deadline of the
\* inbound request lapses; the row is gone, the client is answered 500
C19_Witness ==
    /\ last.op = "finished"
    /\ last.name = "DeleteQuote"
    /\ last.via = "http"
    /\ last.why = "deadline"
    /\ last.reqCtx.has
    /\ last.dbCtx = last.reqCtx
    /\ last.be.kind = "lost"
    /\ table = << >>
    /\ last.resp.status = StatusInternalServerError

---------------------------------------------------------------------------
(* Retries                                                                  *)

\* the repository operation each service operation uses
RepositoryOpOf(op) ==
    IF op \in {"CreateQuote", "HTTP CreateQuote"} THEN "Create"
    ELSE IF op \in {"GetAllQuotes", "HTTP GetQuotes"} THEN "GetAll"
    ELSE IF op \in {"GetRandomQuote", "HTTP GetRandomQuote"} THEN "GetRandom"
    ELSE IF op \in {"DeleteQuote", "HTTP DeleteQuote"} THEN "Delete"
    ELSE "HealthCheck"

\* C20: no retries: a call of CreateQuote, GetAllQuotes, GetRandomQuote,
\* DeleteQuote or HealthCheck invokes its repository operation at most once,
\* and when the backend fails that one attempt the error is returned.
C20_AtMostOneRepositoryCall ==
    last.op \in {"CreateQuote", "GetAllQuotes", "GetRandomQuote", "DeleteQuote",
                 "HealthCheck", "HTTP CreateQuote", "HTTP GetQuotes",
                 "HTTP GetRandomQuote", "HTTP DeleteQuote", "HTTP HealthCheck"} =>
        /\ Len(last.calls) <= 1
        /\ \A i \in 1..Len(last.calls) : last.calls[i].op = RepositoryOpOf(last.op)
        /\ (last.calls # << >> /\ last.be.kind # "ok") => ~IsNil(last.out.err)

\* C20 witness: GetRandomQuote with the backend down: one call of
\* GetRandom, and the error is returned
C20_Witness ==
    /\ last.op = "GetRandomQuote"
    /\ last.be.kind = "fail"
    /\ last.calls = <<Call("GetRandom", << >>)>>
    /\ ~IsNil(last.out.err)
    /\ table # << >>

---------------------------------------------------------------------------
(* Requests served side by side: each is served by a goroutine of its own,  *)
(* the statement it sends to the backend runs as one step, and a handler    *)
(* may panic before or after that step.                                     *)

\* the goroutines that serve a request each
Workers == {"w1", "w2", "w3"}

\* the requests that arrive: their route's handler and, for DELETE, the id
ConcRequests ==
    {[name |-> "DeleteQuote", seg |-> <<ToString(i)>>] : i \in 1..MaxId}
        \cup {[name |-> "CreateQuote", seg |-> << >>],
              [name |-> "GetRandomQuote", seg |-> << >>]}

\* what the handler of the request gives, the backend answering
ConcOutcomes(req) ==
    IF req.name = "DeleteQuote"
    THEN {ResultOf(QuoteHandler_DeleteQuote(req.seg, BackendOk))}
    ELSE HandlerOutcomes(req.name, BackendOk)

\* what next.ServeHTTP came to: the handler returned after writing resp, or
\* it panicked before it wrote anything
Returned(resp) == [panicked |-> FALSE, resp |-> resp]

Panicked == [panicked |-> TRUE, resp |-> NoResp]

\* a plausible slip: no recover(), the panic goes on to the server, which
\* closes the connection without a response
recoveryMiddleware_NoRecover(h) ==
    IF h.panicked
    THEN [resp |-> NoResp, propagated |-> TRUE]
    ELSE [resp |-> h.resp, propagated |-> FALSE]

\* recoveryMiddleware: the response the client gets and whether the panic
\* went past the middleware
recoveryMiddleware(h) ==
    IF h.panicked
    THEN [resp |-> sendError(StatusInternalServerError, <<"Internal server error">>),
          propagated |-> FALSE]
    ELSE [resp |-> h.resp, propagated |-> FALSE]

\* a goroutine: where it is, its request, the response its handler has
\* ready, and what the client got
Goroutine(pc, req, pending, panicked, out) ==
    [pc |-> pc, req |-> req, pending |-> pending, panicked |-> panicked,
     resp |-> out.resp, propagated |-> out.propagated]

NoRequest == [name |-> "", seg |-> << >>]

Waiting == Goroutine("idle", NoRequest, NoResp, FALSE, [resp |-> NoResp, propagated |-> FALSE])

\* the row the first request of a run finds in the table
FirstRow == [ID |-> 1, Author |-> AuthorA, Text |-> QuoteQ, CreatedAt |-> 0, UpdatedAt |-> 0]

InitConc ==
    /\ table = (1 :> FirstRow)
    /\ nextID = 2
    /\ now = 0
    /\ deleted = {}
    /\ last = [w \in Workers |-> Waiting]

\* the router hands a request to its handler, through the middleware
Receive(w) ==
    /\ last[w].pc = "idle"
    /\ \E req \in ConcRequests :
        last' = [last EXCEPT ![w] = Goroutine("received", req, NoResp, FALSE,
                                              [resp |-> NoResp, propagated |-> FALSE])]
    /\ UNCHANGED <<table, nextID, now, deleted>>

\* the handler's statement runs in the backend and the handler has its
\* response ready
Execute(w) ==
    /\ last[w].pc = "received"
    /\ \E o \in ConcOutcomes(last[w].req) :
        /\ o.nextID <= MaxId + 1
        /\ last' = [last EXCEPT ![w] = Goroutine("executed", last[w].req, o.resp, FALSE,
                                                 [resp |-> NoResp, propagated |-> FALSE])]
        /\ Store(o.table, o.nextID)

\* the handler writes its response and returns through the middleware
Respond(w) ==
    /\ last[w].pc = "executed"
    /\ last' = [last EXCEPT ![w] = Goroutine("done", last[w].req, last[w].pending, FALSE,
                                             recoveryMiddleware(Returned(last[w].pending)))]
    /\ UNCHANGED <<table, nextID, now, deleted>>

\* the handler panics, before its statement ran or before it wrote its
\* response; the deferred function of the middleware runs
HandlerPanics(w) ==
    /\ last[w].pc \in {"received", "executed"}
    /\ last' = [last EXCEPT ![w] = Goroutine("done", last[w].req, last[w].pending, TRUE,
                                             recoveryMiddleware(Panicked))]
    /\ UNCHANGED <<table, nextID, now, deleted>>

NextConc ==
    \/ \E w \in Workers : Receive(w)
    \/ \E w \in Workers : Execute(w)
    \/ \E w \in Workers : Respond(w)
    \/ \E w \in Workers : HandlerPanics(w)

SpecConc == InitConc /\ [][NextConc]_vars

\* C21: a panic raised while a route handler runs is recovered by the
\* middleware and answered 500 with a generic message for that request; it
\* does not go past the middleware, and the other requests get the response
\* their handler made.
C21_PanicBecomes500 ==
    \A w \in Workers :
        last[w].pc = "done" =>
            /\ ~last[w].propagated
            /\ last[w].panicked =>
                  /\ last[w].resp.status = StatusInternalServerError
                  /\ last[w].resp.json = [error |-> <<"Internal server error">>]
            /\ ~last[w].panicked =>
                  /\ last[w].resp = last[w].pending
                  /\ last[w].resp.status \in {StatusOK, StatusCreated, StatusNotFound}

\* C21 witness: one DELETE panicked after its statement ran and was
\* answered 500, while a second DELETE of the same id got its 404 and a
\* third request is still being served
C21_Witness ==
    \E w, v, u \in Workers :
        /\ last[w].pc = "done" /\ last[w].panicked
        /\ last[w].req.name = "DeleteQuote"
        /\ last[w].pending.status = StatusOK
        /\ last[w].resp.status = StatusInternalServerError
        /\ last[v].pc = "done" /\ ~last[v].panicked
        /\ last[v].req = last[w].req
        /\ last[v].resp.status = StatusNotFound
        /\ last[u].pc = "received"

---------------------------------------------------------------------------
(* The rows of the table                                                    *)

\* the string begins or ends with white space
HasOuterSpace(s) == s # << >> /\ (IsSpace(s[1].c) \/ IsSpace(s[Len(s)].c))

\* C22: in every reachable state of the store, whatever create and delete
\* requests came before, every stored quote has an author and a text that
\* are non-empty, carry no leading or trailing white space, and have at most
\* 100 and 1000 characters.
C22_StoredQuotesAreClean ==
    \A i \in DOMAIN table :
        /\ table[i].ID = i
        /\ CharLen(table[i].Author) > 0
        /\ CharLen(table[i].Text) > 0
        /\ ~HasOuterSpace(table[i].Author)
        /\ ~HasOuterSpace(table[i].Text)
        /\ CharLen(table[i].Author) <= MaxAuthorLen
        /\ CharLen(table[i].Text) <= MaxQuoteLen

\* C22 witness: after a delete, the store holds a quote that was sent with
\* white space around a 100-character author and a 1000-character text
C22_Witness ==
    /\ deleted # {}
    /\ \E i \in DOMAIN table :
          /\ table[i].Author = Author100
          /\ table[i].Text = Quote1000
    /\ last.op = "HTTP CreateQuote"
    /\ last.in.payload.Author = AuthorPad100
    /\ last.resp.status = StatusCreated

---------------------------------------------------------------------------
(* Errors of the repository as the service passes them on                   *)

\* the error the repository call of the service operation recorded in l
\* returns, in the store as it is
RepositoryErrors(l) ==
    IF l.op = "CreateQuote"
    THEN {quoteRepository_Create(l.calls[1].arg, l.be).err}
    ELSE IF l.op = "GetAllQuotes"
    THEN {quoteRepository_GetAll(l.calls[1].arg, ord, l.be).err :
              ord \in Orders(Matching(l.calls[1].arg))}
    ELSE IF l.op = "GetRandomQuote"
    THEN {quoteRepository_GetRandom(pick, l.be).err : pick \in Picks}
    ELSE IF l.op = "DeleteQuote"
    THEN {quoteRepository_Delete(l.calls[1].arg, l.be).err}
    ELSE {quoteRepository_HealthCheck(l.be)}

\* the operation recorded in l returned no result
NilResult(l) ==
    /\ l.op \in {"CreateQuote", "GetRandomQuote"} => l.out.quote = NoQuote
    /\ l.op = "GetAllQuotes" => l.out.quotes = NilSlice

\* C23: a service operation returns an error (and a nil result) whenever
\* its repository call returns one; the error is not-found exactly when the
\* repository's was; a generic failure of the repository is never reported
\* as not-found or as invalid input.
C23_ServiceKeepsErrorClass ==
    [][(last'.op \in {"CreateQuote", "GetAllQuotes", "GetRandomQuote", "DeleteQuote",
                      "HealthCheck"} /\ last'.calls # << >>) =>
          \A re \in RepositoryErrors(last') :
              /\ ~IsNil(re) => (~IsNil(last'.out.err) /\ NilResult(last'))
              /\ IsNil(re) => IsNil(last'.out.err)
              /\ ErrorsIs(last'.out.err, ErrQuoteNotFound) <=> ErrorsIs(re, ErrQuoteNotFound)
              /\ (~IsNil(re) /\ ~ErrorsIs(re, ErrQuoteNotFound)) =>
                    /\ ~ErrorsIs(last'.out.err, ErrQuoteNotFound)
                    /\ ~ErrorsIs(last'.out.err, ErrInvalidQuote)]_vars

\* C23 witness: DeleteQuote of an id that is not stored returned a
\* not-found error, after a quote had been deleted
C23_Witness ==
    /\ last.op = "DeleteQuote"
    /\ last.be.kind = "ok"
    /\ last.calls # << >>
    /\ last.in \in deleted
    /\ ErrorsIs(last.out.err, ErrQuoteNotFound)
    /\ last.out.err.msg = <<"failed to delete quote", "quote not found">>

---------------------------------------------------------------------------
(* DELETE requests for one id, served side by side                          *)

\* the goroutines whose DELETE of the id has run its statement
DeletesRun(i) ==
    {w \in Workers : /\ last[w].req = [name |-> "DeleteQuote", seg |-> <<ToString(i)>>]
                     /\ last[w].pc \in {"executed", "done"}}

\* C24: however DELETE requests for one id are interleaved (the backend
\* answering, no handler panicking), at most one of them gets 200 and every
\* other one 404; for an id stored from the start exactly one gets 200; the
\* row is removed once, and no other row is removed or changed.
C24_OneDeleteWins ==
    (\A w \in Workers : ~last[w].panicked) =>
        /\ \A i \in 1..MaxId :
              LET won == {w \in DeletesRun(i) : last[w].pending.status = StatusOK}
              IN  /\ Cardinality(won) <= 1
                  /\ \A w \in DeletesRun(i) \ won : last[w].pending.status = StatusNotFound
                  /\ (i = 1 /\ DeletesRun(i) # {}) => Cardinality(won) = 1
                  /\ i \in deleted <=> won # {}
                  /\ \A w \in DeletesRun(i) :
                        last[w].pc = "done" => last[w].resp = last[w].pending
        /\ DOMAIN table = (1..(nextID - 1)) \ deleted
        /\ \A j \in DOMAIN table : table[j] = [FirstRow EXCEPT !.ID = j]

\* C24 witness: two DELETE requests for the stored id 1 are answered, one
\* 200 and one 404, while a third request created quote 2, which stays
C24_Witness ==
    /\ \A w \in Workers : last[w].pc = "done" /\ ~last[w].panicked
    /\ Cardinality(DeletesRun(1)) = 2
    /\ \E w, v \in DeletesRun(1) :
          /\ last[w].resp.status = StatusOK
          /\ last[v].resp.status = StatusNotFound
    /\ DOMAIN table = {2}

---------------------------------------------------------------------------
(* The query parameters of GET /quotes                                      *)

\* the text is an integer numeral: digits, with or without a sign
LooksNumeric(s) ==
    /\ s # << >>
    /\ LET d == IF s[1] \in {"+", "-"} THEN Tail(s) ELSE s
       IN  d # << >> /\ \A k \in 1..Len(d) : d[k] \in Digits

\* the numeral has a minus sign, or denotes 0
NotPositive(s) ==
    LooksNumeric(s) /\ (s[1] = "-" \/ \A k \in 1..Len(s) : s[k] \in {"0", "+"})

\* C25: GET /quotes never answers 400 for its query parameters: a limit
\* that is missing, not a number or <= 0 counts as absent, so that the
\* default 100 applies; an offset that is missing, not a number or negative
\* counts as 0; the filter the service is given has limit >= 0 and
\* offset >= 0.
C25_QueryParametersNeverRejected ==
    last.op = "HTTP GetQuotes" =>
        LET q == last.in.payload
            given == QueryFilter(q)
        IN  /\ last.resp.status \in {StatusOK, StatusInternalServerError}
            /\ last.resp.status = StatusOK <=> last.be.kind = "ok"
            /\ Len(last.calls) = 1
            /\ given.Limit >= 0
            /\ given.Offset >= 0
            /\ last.calls[1].arg.Author = q.author
            /\ last.calls[1].arg.Offset = given.Offset
            /\ (q.limit = << >> \/ ~LooksNumeric(q.limit) \/ NotPositive(q.limit)) =>
                  /\ given.Limit = 0
                  /\ last.calls[1].arg.Limit = DefaultLimit
            /\ (q.offset = << >> \/ ~LooksNumeric(q.offset) \/ q.offset[1] = "-") =>
                  last.calls[1].arg.Offset = 0

\* C25 witness: GET /quotes?limit=a&offset=-1 on a store with a quote is
\* answered 200, the repository asked for 100 rows from the first
C25_Witness ==
    /\ last.op = "HTTP GetQuotes"
    /\ last.in.payload.limit = <<"a">>
    /\ last.in.payload.offset = <<"-", "1">>
    /\ last.resp.status = StatusOK
    /\ last.calls[1].arg.Limit = DefaultLimit
    /\ last.calls[1].arg.Offset = 0
    /\ last.resp.json.data.kind = "array"

=============================================================================
